---- MODULE Spec2Model ----
(***************************************************************************)
(* A model of the attention engine and the layers around it                *)
(* (src/models/components/primitives.py), of the structure module's        *)
(* refinement loop (src/models/structure_module.py) and of the weight swap *)
(* of the training wrapper (src/models/model_wrapper.py).                  *)
(*                                                                         *)
(* The specifications share the variables below:                           *)
(*   Spec          - calls of Attention.forward (backend dispatch)         *)
(*   SpecNumeric   - the attention algorithms on concrete small tensors    *)
(*   SpecStructure - StructureModule._forward_multimer, statement by       *)
(*                   statement                                             *)
(*   SpecTemplate  - calls of StructureModule.frames_to_atom4_pos          *)
(*   SpecLayers    - the constructors of the layers and Attention._wrap_up *)
(*   SpecPairBias  - calls of AttentionPairBias.forward                    *)
(*   SpecWrapper   - the hooks of AlphaFoldWrapper                         *)
(***************************************************************************)
EXTENDS Integers, Sequences, FiniteSets, TLC

VARIABLES
    ds4s_is_installed,  \* primitives.py:36, fixed when the module is imported
    fa_is_installed,    \* primitives.py:43, fixed when the module is imported
    fwd_call,           \* arguments of the last Attention.forward call
    fwd_result,         \* how that call ended
    num_in,             \* the tensors query, key, value, biases of SpecNumeric
    num_out,            \* the attention function applied to them and its result
    no_blocks,          \* structure_module.py:64, self.no_blocks
    lit_positions,      \* structure_module.py:188, the buffer self.lit_positions
    sm_in,              \* the input of StructureModule.forward
    pc,                 \* the statement of _forward_multimer to run next
    sm_i,               \* structure_module.py:125, the loop index i
    sm_s,               \* structure_module.py:104, the token features s
    sm_z,               \* structure_module.py:114, the pair features z
    sm_mask,            \* structure_module.py:108, mask
    rigids,             \* structure_module.py:120, the running transform
    bb_updates,         \* the increments self.bb_update returned, by block
    pred_xyz,           \* structure_module.py:136
    outputs,            \* structure_module.py:124, the list of per-block preds
    sm_result,          \* the dictionary forward returned
    sm_log,             \* the statements of the loop run so far
    sm_reads,           \* what each of those statements read
    sm_writes,          \* the names the statements run so far assigned
    evoformer_output_dict, \* structure_module.py:101, the caller's dictionary
    tpl_calls,          \* the calls of frames_to_atom4_pos of SpecTemplate
    ctor,               \* the constructor call of SpecLayers and its arguments
    built,              \* the module it built, or the exception it raised
    wrap,               \* a call of Attention._wrap_up on that module
    apb_call,           \* the arguments of a call of AttentionPairBias.forward
    apb_result,         \* the bias list it built and how the call ended
    model_params,       \* model_wrapper.py:17, the weights of self.model
    ema_params,         \* model_wrapper.py:21, the averages self.ema keeps
    ema_device,         \* the device self.ema is on
    cached_weights,     \* model_wrapper.py:23, self.cached_weights
    trainer_stage,      \* the loop of the trainer that is running
    hook,               \* the hook of the wrapper that ran last
    val_forwards,       \* the weights each forward of this validation epoch used
    before_val          \* the weights held before its first validation_step

attn_vars == <<ds4s_is_installed, fa_is_installed, fwd_call, fwd_result>>
num_vars == <<num_in, num_out>>
layer_vars == <<ctor, built, wrap>>
apb_vars == <<apb_call, apb_result>>
ema_vars == <<model_params, ema_params, ema_device, cached_weights, trainer_stage, hook,
              val_forwards, before_val>>
more_vars == <<apb_vars, ema_vars>>
sm_vars == <<no_blocks, lit_positions, sm_in, pc, sm_i, sm_s, sm_z, sm_mask,
             rigids, bb_updates, pred_xyz, outputs, sm_result, sm_log, sm_reads,
             sm_writes, evoformer_output_dict, tpl_calls>>

\* Python's Optional values: None is the empty set, a value v is {v}.
None == {}
Some(v) == {v}
Val(o) == CHOOSE v \in o : TRUE
NoError == "none"

(***************************************************************************)
(* Bounds of the dispatch model.                                           *)
(***************************************************************************)
MaxBiases == 3      \* longest bias list handed to Attention.forward
MaxChunkArg == 2    \* largest lma_*_chunk_size argument

RECURSIVE SeqsUpTo(_, _)
SeqsUpTo(S, n) ==
    IF n = 0 THEN {<<>>}
    ELSE LET shorter == SeqsUpTo(S, n - 1)
         IN  shorter \cup {Append(t, e) : t \in {u \in shorter : Len(u) = n - 1}, e \in S}

\* Entries of a bias list: tensors.
BiasEntries == {"tensor"}

\* The values the caller may pass for `biases`: None or a list.
BiasArgs == {None} \cup {Some(b) : b \in SeqsUpTo(BiasEntries, MaxBiases)}

ChunkArgs == {None} \cup {Some(c) : c \in 1..MaxChunkArg}

FwdArgs ==
    [ use_memory_efficient_kernel : BOOLEAN,
      use_deepspeed_evo_attention : BOOLEAN,
      use_lma                     : BOOLEAN,
      use_flash                   : BOOLEAN,
      biases                      : BiasArgs,
      lma_q_chunk_size            : ChunkArgs,
      lma_kv_chunk_size           : ChunkArgs,
      flash_mask                  : {None, Some("mask")},
      fp16                        : BOOLEAN ]   \* is_fp16_enabled() during the call

(***************************************************************************)
(* Outcomes of a call.  `trace` lists the computations that ran before the *)
(* call ended, in order.                                                   *)
(***************************************************************************)
Raise(error, at, trace) ==
    [kind |-> "raised", error |-> error, at |-> at, trace |-> trace]

Return(trace) ==
    [kind |-> "returned", error |-> NoError, at |-> NoError, trace |-> trace]

NoResult == [kind |-> "none", error |-> NoError, at |-> NoError, trace |-> <<>>]

\* sum(attn_options): Python adds booleans as 0/1.
BoolToInt(b) == IF b THEN 1 ELSE 0

attn_options(a) ==
    << a.use_memory_efficient_kernel, a.use_deepspeed_evo_attention,
       a.use_lma, a.use_flash >>

SumOptions(opts) ==
    BoolToInt(opts[1]) + BoolToInt(opts[2]) + BoolToInt(opts[3]) + BoolToInt(opts[4])

\* primitives.py:640
LmaChunkSizeMissing_both(a) ==
    a.use_lma /\ (a.lma_q_chunk_size = None /\ a.lma_kv_chunk_size = None)

LmaChunkSizeMissing(a) ==
    a.use_lma /\ (a.lma_q_chunk_size = None \/ a.lma_kv_chunk_size = None)

\* The test of line 646 on the truth value of the list: an empty list passes.
FlashWithBiases_nonempty(a) ==
    a.use_flash /\ a.biases # None /\ Val(a.biases) # <<>>

\* primitives.py:646
FlashWithBiases(a) == a.use_flash /\ a.biases # None

\* primitives.py:653
TooManyOptions_two(opts) == SumOptions(opts) > 2

TooManyOptions_notone(opts) == SumOptions(opts) # 1

TooManyOptions(opts) == SumOptions(opts) > 1

\* The stock implementation taking any bias list that is not empty.
_attention_call_anybias(biases, trace) ==
    IF Len(biases) < 1
    THEN Raise("AssertionError", "_attention", trace)
    ELSE Return(trace \o <<"_attention">>)

\* primitives.py:304-321: the stock implementation asserts one bias term.
_attention_call(biases, trace) ==
    IF Len(biases) # 1
    THEN Raise("AssertionError", "_attention", trace)
    ELSE Return(trace \o <<"_attention">>)

\* primitives.py:726-767
_deepspeed_evo_attn_fallback(biases, trace) ==
    IF ~ds4s_is_installed
    THEN _attention_call(biases, trace)
    ELSE Return(trace \o <<"DS4Sci_EvoformerAttention">>)

_deepspeed_evo_attn_call(biases, trace) ==
    IF ~ds4s_is_installed
    THEN Raise("ValueError", "_deepspeed_evo_attn", trace)
    ELSE Return(trace \o <<"DS4Sci_EvoformerAttention">>)

\* primitives.py:833-895
_flash_attn_call(kv_mask, trace) ==
    IF ~fa_is_installed
    THEN Raise("ValueError", "_flash_attn", trace)
    ELSE IF kv_mask = None
    THEN Raise("AttributeError", "_flash_attn", trace)   \* kv_mask.half() on None
    ELSE Return(trace \o <<"flash_attn_varlen_kvpacked_func">>)

\* primitives.py:770-829
_lma_call(biases, trace) == Return(trace \o <<"_lma">>)

\* primitives.py:574-591
_wrap_up_call(r) ==
    IF r.kind = "returned" THEN Return(r.trace \o <<"_wrap_up">>) ELSE r

\* primitives.py:665-666
EffectiveMemKernel(a) ==
    IF a.fp16 THEN FALSE ELSE a.use_memory_efficient_kernel

\* primitives.py:658-702
Dispatch(a) ==
    LET biases == IF a.biases = None THEN <<>> ELSE Val(a.biases)
        trace  == <<"_prep_qkv">>
        mem    == EffectiveMemKernel(a)
    IN  IF mem THEN
            IF Len(biases) > 2
            THEN Raise("ValueError", "memory_efficient_kernel", trace)
            ELSE Raise("NotImplementedError", "memory_efficient_kernel", trace)
        ELSE IF a.use_deepspeed_evo_attention THEN
            IF Len(biases) > 2
            THEN Raise("ValueError", "deepspeed_bias_count", trace)
            ELSE _wrap_up_call(_deepspeed_evo_attn_call(biases, trace))
        ELSE IF a.use_lma THEN
            _wrap_up_call(_lma_call(biases, trace))
        ELSE IF a.use_flash THEN
            _wrap_up_call(_flash_attn_call(a.flash_mask, trace))
        ELSE
            _wrap_up_call(_attention_call(biases, trace))

\* primitives.py:593-702
AttentionForward(a) ==
    IF LmaChunkSizeMissing(a)
    THEN Raise("ValueError", "lma_chunk_size", <<>>)
    ELSE IF FlashWithBiases(a)
    THEN Raise("ValueError", "flash_biases", <<>>)
    ELSE IF TooManyOptions(attn_options(a))
    THEN Raise("ValueError", "attn_options", <<>>)
    ELSE Dispatch(a)

(***************************************************************************)
(* The attention algorithms on concrete tensors.                           *)
(*                                                                         *)
(* A tensor is a sequence per dimension: query is [*, Q], key and value    *)
(* are [*, K] and a bias is [*, Q, K], with one leading batch dimension    *)
(* (of size 1 when the bias broadcasts over it) and one channel per head   *)
(* (C_hidden = 1), so that a matmul over the channel is a product.  The    *)
(* head dimension H has size 1 and is kept only as the layout of the       *)
(* output ("HQ" for [*, H, Q, C], "QH" for [*, Q, H, C]).                  *)
(*                                                                         *)
(* Values are exact rationals n/d (d > 0, in lowest terms).  torch.exp is  *)
(* modelled by 2^x, which keeps every value rational; the algorithms use   *)
(* exp only through exp(x) * exp(y) = exp(x + y).                          *)
(***************************************************************************)
\* A tensor built element by element, held as a sequence.
Tensor(f) == f \o <<>>

Min(a, b) == IF a <= b THEN a ELSE b
Max(a, b) == IF a >= b THEN a ELSE b
Abs(x) == IF x < 0 THEN 0 - x ELSE x

RECURSIVE GCD(_, _)
GCD(a, b) == IF b = 0 THEN a ELSE GCD(b, a % b)

Rat(n, d) ==
    LET g == GCD(Abs(n), d)
    IN  [n |-> n \div g, d |-> d \div g]

RInt(i) == [n |-> i, d |-> 1]
RAdd(x, y) == Rat(x.n * y.d + y.n * x.d, x.d * y.d)
RMul(x, y) == Rat(x.n * y.n, x.d * y.d)
RDiv(x, y) == Rat(x.n * y.d, x.d * y.n)      \* y > 0

RECURSIVE RSum(_)
RSum(xs) == IF xs = <<>> THEN RInt(0) ELSE RAdd(xs[1], RSum(Tail(xs)))

RECURSIVE Pow2(_)
Pow2(n) == IF n = 0 THEN 1 ELSE 2 * Pow2(n - 1)

\* torch.exp
Exp(x) == IF x >= 0 THEN RInt(Pow2(x)) ELSE [n |-> 1, d |-> Pow2(0 - x)]

RECURSIVE MaxOf(_)
MaxOf(xs) == IF Len(xs) = 1 THEN xs[1] ELSE Max(xs[1], MaxOf(Tail(xs)))

\* range(start, stop, step) that leaves out a last, shorter step.
RECURSIVE Range_dropshort(_, _, _)
Range_dropshort(start, stop, step) ==
    IF start + step > stop THEN <<>>
    ELSE <<start>> \o Range_dropshort(start + step, stop, step)

\* range(start, stop, step)
RECURSIVE Range(_, _, _)
Range(start, stop, step) ==
    IF start >= stop THEN <<>> ELSE <<start>> \o Range(start + step, stop, step)

\* x[start:end], Python's slice of the leading dimension (end is clipped).
Slice(x, start, end) == SubSeq(x, start + 1, Min(end, Len(x)))

\* The element of a bias at batch b, row i, column j; a leading dimension of
\* size 1 broadcasts.
BiasAt(bias, b, i, j) == bias[IF Len(bias) = 1 THEN 1 ELSE b][i][j]

\* The sum of the bias terms at one position (a + b1 + b2 ...).
RECURSIVE BiasSum(_, _, _, _)
BiasSum(biases, b, i, j) ==
    IF biases = <<>> THEN 0
    ELSE BiasAt(biases[1], b, i, j) + BiasSum(Tail(biases), b, i, j)

\* primitives.py:284-300, F.softmax over the last dimension: the row maximum
\* is subtracted before exponentiation.
softmax_no_cast(t) ==
    LET m == MaxOf(t)
        e == Tensor([j \in 1..Len(t) |-> Exp(t[j] - m)])
        total == RSum(e)
    IN  Tensor([j \in 1..Len(t) |-> RDiv(e[j], total)])

NumOk(o, layout) == [error |-> NoError, o |-> o, layout |-> layout]
NumErr(error) == [error |-> error, o |-> <<>>, layout |-> NoError]

\* primitives.py:304-321
_attention(query, key, value, biases) ==
    IF Len(biases) # 1 THEN NumErr("AssertionError")
    ELSE NumOk(
        Tensor([b \in 1..Len(query) |->
            Tensor([i \in 1..Len(query[b]) |->
                LET a == Tensor([j \in 1..Len(key[b]) |->
                            query[b][i] * key[b][j] + BiasAt(biases[1], b, i, j)])
                    w == softmax_no_cast(a)
                IN  RSum([j \in 1..Len(key[b]) |-> RMul(w[j], RInt(value[b][j]))])])]),
        "HQ")

\* (biases + [None, None])[:2] with the None entries dropped again
\* (primitives.py:336, 359-362), after slicing each bias given.
CheckpointBiases(biases, start, end) ==
    LET padded == SubSeq([n \in 1..Len(biases) |-> Some(biases[n])] \o <<None, None>>, 1, 2)
        present == SelectSeq(padded, LAMBDA b : b # None)
    IN  Tensor([n \in 1..Len(present) |->
            LET b == Val(present[n])
            IN  IF Len(b) # 1 THEN Slice(b, start, end) ELSE b])

\* primitives.py:343-375, one iteration of the loop over the chunks of
\* chunk_dim, here the leading batch dimension, along which query, key and
\* value are sliced alike (a bias of size 1 there is not sliced).
AttentionChunk(query, key, value, biases, start, chunk_size, checkpoint) ==
    LET end == start + chunk_size
        q_chunk == Slice(query, start, end)
        k_chunk == Slice(key, start, end)
        v_chunk == Slice(value, start, end)
        bias_chunks == Tensor([n \in 1..Len(biases) |->
                           IF Len(biases[n]) # 1
                           THEN Slice(biases[n], start, end)
                           ELSE biases[n]])
    IN  IF checkpoint
        THEN _attention(q_chunk, k_chunk, v_chunk, CheckpointBiases(biases, start, end))
        ELSE _attention(q_chunk, k_chunk, v_chunk, bias_chunks)

\* torch.cat(o_chunks, dim=chunk_dim), or the first chunk's exception.
RECURSIVE CatChunks(_)
CatChunks(chunks) ==
    IF chunks = <<>> THEN NumOk(<<>>, "QH")
    ELSE IF chunks[1].error # NoError THEN NumErr(chunks[1].error)
    ELSE LET rest == CatChunks(Tail(chunks))
         IN  IF rest.error # NoError THEN rest
             ELSE NumOk(chunks[1].o \o rest.o, "QH")

\* primitives.py:325-378
_attention_chunked_trainable(query, key, value, biases, chunk_size, checkpoint) ==
    IF checkpoint /\ Len(biases) > 2 THEN NumErr("ValueError")
    ELSE LET count == Len(query)
             starts == Range(0, count, chunk_size)
         IN  CatChunks([c \in 1..Len(starts) |->
                 AttentionChunk(query, key, value, biases,
                                starts[c], chunk_size, checkpoint)])

\* primitives.py:791-811, one key/value chunk against one query chunk: per
\* batch element and query row the chunk's maximum, its summed weights and
\* its weighted values.
LmaKvChunk(q_chunk, k, v, large_bias_chunks, kv_s, kv_chunk_size) ==
    LET k_chunk == Tensor([b \in 1..Len(k) |-> Slice(k[b], kv_s, kv_s + kv_chunk_size)])
        v_chunk == Tensor([b \in 1..Len(v) |-> Slice(v[b], kv_s, kv_s + kv_chunk_size)])
        small_bias_chunks ==
            Tensor([n \in 1..Len(large_bias_chunks) |->
                Tensor([b \in 1..Len(large_bias_chunks[n]) |->
                    Tensor([i \in 1..Len(large_bias_chunks[n][b]) |->
                        Slice(large_bias_chunks[n][b][i], kv_s, kv_s + kv_chunk_size)])])])
    IN  Tensor([b \in 1..Len(q_chunk) |->
            Tensor([i \in 1..Len(q_chunk[b]) |->
                LET a == Tensor([j \in 1..Len(k_chunk[b]) |->
                            q_chunk[b][i] * k_chunk[b][j]
                            + BiasSum(small_bias_chunks, b, i, j)])
                    max_a == MaxOf(a)
                    exp_a == Tensor([j \in 1..Len(a) |-> Exp(a[j] - max_a)])
                IN  [ max    |-> max_a,
                      weight |-> RSum(exp_a),
                      value  |-> RSum([j \in 1..Len(a) |->
                                         RMul(exp_a[j], RInt(v_chunk[b][j]))]) ]])])

\* The chunks of one query chunk summed without rescaling them to the global
\* maximum.
LmaCombine_norescale(chunks) ==
    Tensor([b \in 1..Len(chunks[1]) |->
        Tensor([i \in 1..Len(chunks[1][b]) |->
            RDiv(RSum([c \in 1..Len(chunks) |-> chunks[c][b][i].value]),
                 RSum([c \in 1..Len(chunks) |-> chunks[c][b][i].weight]))])])

\* primitives.py:813-825, the chunks of one query chunk combined.
LmaCombine(chunks) ==
    Tensor([b \in 1..Len(chunks[1]) |->
        Tensor([i \in 1..Len(chunks[1][b]) |->
            LET global_max == MaxOf([c \in 1..Len(chunks) |-> chunks[c][b][i].max])
                max_diffs == Tensor([c \in 1..Len(chunks) |->
                                 Exp(chunks[c][b][i].max - global_max)])
                all_values == RSum([c \in 1..Len(chunks) |->
                                 RMul(chunks[c][b][i].value, max_diffs[c])])
                all_weights == RSum([c \in 1..Len(chunks) |->
                                 RMul(chunks[c][b][i].weight, max_diffs[c])])
            IN  RDiv(all_values, all_weights)])])

\* primitives.py:782-827, the loop over the query chunks.  `visits` lists
\* the (query rows, key columns) of every inner iteration in the order they
\* run; `writes` counts the assignments to each query row of o.
RECURSIVE LmaLoop(_, _, _, _, _, _, _, _)
LmaLoop(q_starts, q, k, v, biases, q_chunk_size, kv_chunk_size, acc) ==
    IF q_starts = <<>> THEN acc
    ELSE
        LET q_s == q_starts[1]
            no_q == Len(q[1])
            no_kv == Len(k[1])
            q_lo == q_s + 1
            q_hi == Min(q_s + q_chunk_size, no_q)
            q_chunk == Tensor([b \in 1..Len(q) |-> Slice(q[b], q_s, q_s + q_chunk_size)])
            large_bias_chunks ==
                Tensor([n \in 1..Len(biases) |->
                    Tensor([b \in 1..Len(biases[n]) |->
                        Slice(biases[n][b], q_s, q_s + q_chunk_size)])])
            kv_starts == Range(0, no_kv, kv_chunk_size)
            chunks == Tensor([c \in 1..Len(kv_starts) |->
                          LmaKvChunk(q_chunk, k, v, large_bias_chunks,
                                     kv_starts[c], kv_chunk_size)])
            q_chunk_out == LmaCombine(chunks)
            seen == Tensor([c \in 1..Len(kv_starts) |->
                        [ q  |-> <<q_lo, q_hi>>,
                          kv |-> <<kv_starts[c] + 1,
                                   Min(kv_starts[c] + kv_chunk_size, no_kv)>> ]])
        IN  LmaLoop(Tail(q_starts), q, k, v, biases, q_chunk_size, kv_chunk_size,
                [ o |-> Tensor([b \in 1..Len(q) |->
                            Tensor([i \in 1..no_q |->
                                IF i >= q_lo /\ i <= q_hi
                                THEN q_chunk_out[b][i - q_s]
                                ELSE acc.o[b][i]])]),
                  visits |-> acc.visits \o seen,
                  writes |-> Tensor([i \in 1..no_q |->
                                IF i >= q_lo /\ i <= q_hi
                                THEN acc.writes[i] + 1
                                ELSE acc.writes[i]]) ])

\* primitives.py:770-829
_lma(q, k, v, biases, q_chunk_size, kv_chunk_size) ==
    LET no_q == Len(q[1])
        no_kv == Len(k[1])
        \* o = q.new_zeros(q.shape)
        zeros == [ o      |-> Tensor([b \in 1..Len(q) |->
                                   Tensor([i \in 1..no_q |-> RInt(0)])]),
                   visits |-> <<>>,
                   writes |-> Tensor([i \in 1..no_q |-> 0]) ]
        done == LmaLoop(Range(0, no_q, q_chunk_size), q, k, v, biases,
                        q_chunk_size, kv_chunk_size, zeros)
    IN  [ error |-> NoError, o |-> done.o, layout |-> "HQ",
          visits |-> done.visits, writes |-> done.writes ]

(***************************************************************************)
(* Spec: any sequence of Attention.forward calls.                          *)
(***************************************************************************)
AttnIdle ==
    /\ fwd_call = None
    /\ fwd_result = NoResult

AttnInit ==
    /\ ds4s_is_installed \in BOOLEAN
    /\ fa_is_installed \in BOOLEAN
    /\ AttnIdle

\* One whole call of Attention.forward, from its arguments to its return or
\* its exception.
Forward ==
    /\ fwd_call = None
    /\ \E a \in FwdArgs :
            /\ fwd_call' = Some(a)
            /\ fwd_result' = AttentionForward(a)
    /\ UNCHANGED <<ds4s_is_installed, fa_is_installed>>
    /\ UNCHANGED num_vars
    /\ UNCHANGED <<sm_vars, layer_vars, more_vars>>

\* The caller takes the output (or the exception); the layer keeps no state
\* of the call, and the next call may follow.
ForwardDone ==
    /\ fwd_call # None
    /\ fwd_call' = None
    /\ fwd_result' = NoResult
    /\ UNCHANGED <<ds4s_is_installed, fa_is_installed>>
    /\ UNCHANGED num_vars
    /\ UNCHANGED <<sm_vars, layer_vars, more_vars>>

(***************************************************************************)
(* SpecNumeric: the attention functions applied to small tensors.          *)
(***************************************************************************)
MaxBatch == 2       \* size of the leading batch dimension
MaxQ == 3           \* number of query rows
MaxKV == 3          \* number of key/value rows
MaxChunk == 4       \* largest chunk size tried

QVals == {0, 1}
VVals == {0, 1}

\* The tensors of one input: MaxBatch batch elements, MaxQ query rows and
\* no_kv key/value rows.  The first query entry (q1), the values of the first
\* batch element (vv), the direction in which the keys grow (k_up) and the
\* masked column of the first row (hole, 0 for none) are drawn freely; the
\* other rows and batch elements are derived from them so that every row and
\* every batch element has logits and values of its own.  A masked position
\* has the bias -3, any other the bias 0.  The bias has a leading dimension
\* of 1 (broadcast over the batch) or of the batch size.
NumInput(no_kv, q1, k_up, vv, hole, bias_batch) ==
    [ query  |-> [b \in 1..MaxBatch |-> [i \in 1..MaxQ |-> (q1 + i + b) % 2]],
      key    |-> [b \in 1..MaxBatch |-> [j \in 1..no_kv |->
                     IF k_up = (b % 2 = 1) THEN j - 1 ELSE no_kv - j]],
      value  |-> [b \in 1..MaxBatch |-> [j \in 1..no_kv |-> vv[j] + (b - 1)]],
      biases |-> << [b \in 1..bias_batch |-> [i \in 1..MaxQ |-> [j \in 1..no_kv |->
                     IF j = (hole + i + b) % (no_kv + 1) THEN -3 ELSE 0]]] >> ]

\* An input with a bias list of any other length: no bias term, or several
\* broadcast bias terms, the n-th with the bias -1 on a diagonal of its own.
NumInputBiases(no_kv, vv, n_bias) ==
    [ NumInput(no_kv, 0, TRUE, vv, 1, 1) EXCEPT
        !.biases = Tensor([n \in 1..n_bias |->
                      Tensor([b \in 1..1 |->
                          Tensor([i \in 1..MaxQ |->
                              Tensor([j \in 1..no_kv |->
                                  IF j = ((n + i) % no_kv) + 1 THEN 0 - 1 ELSE 0])])])]) ]

NumInputs ==
    UNION { { NumInput(no_kv, q1, k_up, vv, hole, bias_batch) :
                q1 \in QVals, k_up \in BOOLEAN, vv \in [1..no_kv -> VVals],
                hole \in 0..no_kv, bias_batch \in {1, MaxBatch} }
            \cup
            { NumInputBiases(no_kv, vv, n_bias) :
                vv \in [1..no_kv -> VVals], n_bias \in (0..MaxBiases) \ {1} } :
            no_kv \in 1..MaxKV }

NoOut == [op |-> "none"]

NumIdle ==
    /\ num_in = None
    /\ num_out = NoOut

NumInit ==
    /\ num_in \in NumInputs
    /\ num_out = NoOut

RunAttention ==
    /\ num_out.op = "none"
    /\ num_out' = [ op |-> "_attention",
                    res |-> _attention(num_in.query, num_in.key, num_in.value,
                                       num_in.biases) ]
    /\ UNCHANGED num_in
    /\ UNCHANGED attn_vars
    /\ UNCHANGED <<sm_vars, layer_vars, more_vars>>

RunChunked ==
    /\ num_out.op = "none"
    /\ \E chunk_size \in 1..MaxChunk, checkpoint \in BOOLEAN :
          num_out' = [ op |-> "_attention_chunked_trainable",
                       chunk_size |-> chunk_size,
                       checkpoint |-> checkpoint,
                       res |-> _attention_chunked_trainable(
                                   num_in.query, num_in.key, num_in.value,
                                   num_in.biases, chunk_size, checkpoint) ]
    /\ UNCHANGED num_in
    /\ UNCHANGED attn_vars
    /\ UNCHANGED <<sm_vars, layer_vars, more_vars>>

RunLma ==
    /\ num_out.op = "none"
    /\ \E q_chunk_size \in 1..MaxChunk, kv_chunk_size \in 1..MaxChunk :
          num_out' = [ op |-> "_lma",
                       q_chunk_size |-> q_chunk_size,
                       kv_chunk_size |-> kv_chunk_size,
                       res |-> _lma(num_in.query, num_in.key, num_in.value,
                                    num_in.biases, q_chunk_size, kv_chunk_size) ]
    /\ UNCHANGED num_in
    /\ UNCHANGED attn_vars
    /\ UNCHANGED <<sm_vars, layer_vars, more_vars>>

(***************************************************************************)
(* SpecStructure: StructureModule._forward_multimer, statement by          *)
(* statement.                                                              *)
(*                                                                         *)
(* Rigid3Array, BackboneUpdate, InvariantPointAttention,                   *)
(* StructureTransition, dict_multimap and residue_constants are not part   *)
(* of the sources at hand.  A rigid transform is modelled in the subgroup  *)
(* of SE(3) made of the quarter turns about the z axis and the integer     *)
(* translations: it is closed under composition and not commutative.  The  *)
(* learned modules are modelled by what they return: the token features s  *)
(* by the statement that defined them, the increment of bb_update by a     *)
(* free choice among Updates.                                              *)
(***************************************************************************)
MaxBlocks == 3      \* largest no_blocks
MaxTokens == 2      \* largest number of tokens N
MaxCalls == 4       \* longest sequence of frames_to_atom4_pos calls

Dtypes == {"float32", "bfloat16"}
Devices == {"cpu", "cuda:0"}

\* torch's type promotion between the two precisions of Dtypes.
Promote(a, b) == IF a = "float32" \/ b = "float32" THEN "float32" ELSE "bfloat16"

\* Number of elements of an array of the given shape.
RECURSIVE NumEl(_)
NumEl(shape) == IF shape = <<>> THEN 1 ELSE Head(shape) * NumEl(Tail(shape))

\* The token (last index) of the flat element e of an array of shape [*, N].
TokenOf(shape, e) == ((e - 1) % shape[Len(shape)]) + 1

\* s.shape[:-1] of the single representation: [N] or [B, N].
LeadShapes ==
    { bs \o <<n>> : bs \in {<<>>} \cup { <<b>> : b \in 1..MaxBatch },
                    n \in 1..MaxTokens }

VAdd(a, b) == <<a[1] + b[1], a[2] + b[2], a[3] + b[3]>>

\* The rotation by q quarter turns about the z axis applied to the vector v.
RotApply(q, v) ==
    CASE q % 4 = 0 -> v
      [] q % 4 = 1 -> <<0 - v[2], v[1], v[3]>>
      [] q % 4 = 2 -> <<0 - v[1], 0 - v[2], v[3]>>
      [] q % 4 = 3 -> <<v[2], 0 - v[1], v[3]>>

\* The 3x3 matrix of the rotation by q quarter turns about the z axis, by
\* columns: the images of the three unit vectors.
RotColumns(q) ==
    << RotApply(q, <<1, 0, 0>>), RotApply(q, <<0, 1, 0>>), RotApply(q, <<0, 0, 1>>) >>

IdentityTransform == [rot |-> 0, trans |-> <<0, 0, 0>>]

\* Rigid3Array.identity(shape, device): the identity for every element, with
\* no gradient history.
Rigid3Array_identity(shape, device) ==
    [ shape |-> shape, dtype |-> "float32", device |-> device,
      val |-> Tensor([e \in 1..NumEl(shape) |-> IdentityTransform]),
      rot_src |-> {}, trans_src |-> {} ]

\* Rigid3Array.__matmul__: self o other, that is rotation R1 R2 and
\* translation R1 t2 + t1.  The rotation of the result is computed from both
\* rotations, its translation from both translations and the left rotation.
Rigid3Array_matmul(self, other) ==
    [ shape |-> self.shape,
      dtype |-> Promote(self.dtype, other.dtype),
      device |-> self.device,
      val |-> Tensor([e \in 1..NumEl(self.shape) |->
                 [ rot |-> (self.val[e].rot + other.val[e].rot) % 4,
                   trans |-> VAdd(RotApply(self.val[e].rot, other.val[e].trans),
                                  self.val[e].trans) ]]),
      rot_src |-> self.rot_src \cup other.rot_src,
      trans_src |-> self.rot_src \cup self.trans_src \cup other.trans_src ]

\* Rigid3Array.stop_rot_gradient: the same transform with its rotation
\* detached; the translation keeps its gradient path.
Rigid3Array_stop_rot_gradient(self) == [self EXCEPT !.rot_src = {}]

\* Rigid3Array.to_tensor: each transform flattened to the rows of [R | t].
Rigid3Array_to_tensor(self) ==
    [ dtype |-> self.dtype, device |-> self.device,
      shape |-> self.shape \o <<3, 4>>,
      data |-> Tensor([e \in 1..NumEl(self.shape) |->
                  Tensor([r \in 1..3 |->
                      << RotColumns(self.val[e].rot)[1][r],
                         RotColumns(self.val[e].rot)[2][r],
                         RotColumns(self.val[e].rot)[3][r],
                         self.val[e].trans[r] >>])]) ]

\* frames.unsqueeze(dim=-1).apply(points): every transform applied to every
\* point.
Rigid3Array_apply(self, points, points_dtype) ==
    [ dtype |-> Promote(self.dtype, points_dtype), device |-> self.device,
      shape |-> self.shape \o <<Len(points), 3>>,
      data |-> Tensor([e \in 1..NumEl(self.shape) |->
                  Tensor([a \in 1..Len(points) |->
                      VAdd(RotApply(self.val[e].rot, points[a]),
                           self.val[e].trans)])]) ]

\* The increments bb_update may return for a token.
Updates ==
    << [rot |-> 1, trans |-> <<1, 0, 0>>],
       [rot |-> 0, trans |-> <<0, 1, 0>>],
       [rot |-> 2, trans |-> <<0, 0, 1>>] >>

\* self.bb_update(s) in the given block: the token t gets the increment
\* Updates[c + t - 1] (cyclically), so the tokens get increments of their own;
\* the gradient of the increment flows to the block that predicted it.
bb_update(c, shape, dtype, device, block) ==
    [ shape |-> shape, dtype |-> dtype, device |-> device,
      val |-> Tensor([e \in 1..NumEl(shape) |->
                 Updates[((c + TokenOf(shape, e) - 2) % Len(Updates)) + 1]]),
      rot_src |-> {block}, trans_src |-> {block} ]

\* residue_constants.restype_atom14_rigid_group_positions, cut down to two
\* residue types of five atoms.
restype_atom14_rigid_group_positions ==
    << << <<0 - 1, 1, 0>>, <<0, 0, 0>>, <<2, 0, 0>>, <<0 - 1, 0 - 1, 0 - 1>>, <<0, 0, 0>> >>,
       << <<0 - 1, 1, 0>>, <<0, 0, 0>>, <<2, 0, 0>>, <<0, 0, 0>>, <<0, 0, 0>> >> >>

\* residue_constants.restype_order[restype_3to1["ALA"]], counted from 1.
AlaOrder == 1

\* tensor.to(dtype=dtype)
To(tensor, dtype) == [tensor EXCEPT !.dtype = dtype]

\* torch.stack(tensors) along a new first dimension.
Stack(tensors) ==
    [ dtype |-> tensors[1].dtype, device |-> tensors[1].device,
      shape |-> <<Len(tensors)>> \o tensors[1].shape,
      data |-> Tensor([k \in 1..Len(tensors) |-> tensors[k].data]) ]

\* structure_module.py:185-197, the buffer lit_positions after
\* _init_residue_constants(float_dtype, device).
_init_residue_constants(lit, float_dtype, device) ==
    IF lit = None
    THEN Some([ dtype |-> float_dtype, device |-> device,
                data |-> restype_atom14_rigid_group_positions ])
    ELSE lit

\* structure_module.py:199-221, the buffer after the call and the positions
\* returned.
frames_to_atom4_pos(lit, frames) ==
    LET buffer == _init_residue_constants(lit, frames.dtype, frames.device)
        backbone_atoms == SubSeq(Val(buffer).data[AlaOrder], 1, 4)
    IN  [ lit_positions |-> buffer,
          backbone_xyz |-> Rigid3Array_apply(frames, backbone_atoms,
                                             Val(buffer).dtype) ]

\* structure_module.py:133, the operands of the composition, the other way
\* round.
NextRigids_left(old, update) == Rigid3Array_matmul(update, old)

\* structure_module.py:133, rigids @ self.bb_update(s)
NextRigids(old, update) == Rigid3Array_matmul(old, update)

\* outputs with preds put in front.
Appended_front(list, preds) == <<preds>> \o list

\* structure_module.py:145, outputs.append(preds)
Appended(list, preds) == Append(list, preds)

\* The detach after every block, the last one too.
NotLastBlock_always(index, blocks) == TRUE

\* structure_module.py:147, if i + 1 < self.no_blocks
NotLastBlock(index, blocks) == index + 1 < blocks

\* structure_module.py:125, for i in range(self.no_blocks): the statement
\* that follows the end of the iteration index.
AfterIteration(index, blocks) == IF index + 1 < blocks THEN "ipa" ELSE "finish"

\* The token features as defined by a statement of a block.
Features(def, block) == [def |-> def, block |-> block]

\* One statement of the loop as it is remembered: the statement, its block
\* (counted from 1), the token features and the running transform after it.
Event(op, block, features, transform) ==
    [op |-> op, block |-> block, s |-> features, rigids |-> transform]

\* A mask of zeros.
new_ones_zeros(shape) ==
    [shape |-> shape, data |-> Tensor([e \in 1..NumEl(shape) |-> 0])]

\* structure_module.py:108, s.new_ones(s.shape[:-1])
new_ones(shape) ==
    [shape |-> shape, data |-> Tensor([e \in 1..NumEl(shape) |-> 1])]

\* The masks of shape [*, N] handed to forward: every position valid, or the
\* last position of the array padded.
Masks(shape) ==
    { [shape |-> shape,
       data |-> Tensor([e \in 1..NumEl(shape) |->
                   IF e = NumEl(shape) /\ padded THEN 0 ELSE 1])] :
      padded \in BOOLEAN }

\* The statements of the loop body with dropout and layer norm exchanged.
AfterStatement_normfirst(stmt) ==
    CASE stmt = "ipa" -> "layer_norm"
      [] stmt = "layer_norm" -> "dropout"
      [] stmt = "dropout" -> "transition"
      [] stmt = "transition" -> "compose"
      [] stmt = "compose" -> "atom_pos"
      [] stmt = "atom_pos" -> "record"
      [] stmt = "record" -> "loop_end"

\* structure_module.py:127-147, the statement that follows each statement of
\* the loop body.
AfterStatement(stmt) ==
    CASE stmt = "ipa" -> "dropout"
      [] stmt = "dropout" -> "layer_norm"
      [] stmt = "layer_norm" -> "transition"
      [] stmt = "transition" -> "compose"
      [] stmt = "compose" -> "atom_pos"
      [] stmt = "atom_pos" -> "record"
      [] stmt = "record" -> "loop_end"

\* What one statement of the loop read: the module of self it called and
\* the values of s, z, rigids, mask and pred_xyz handed to it (None for a
\* variable the statement does not read).
Read(op, block, module, features, pair, transform, valid, xyz) ==
    [ op |-> op, block |-> block, module |-> module, s |-> features,
      z |-> pair, rigids |-> transform, mask |-> valid, pred_xyz |-> xyz ]

\* structure_module.py:101, the dictionary handed to forward: the token
\* features "single" of shape [*, N, C_s] and the pair features "pair" of
\* shape [*, N, N, C_z] (the channel dimension is left out of the shapes).
InputDict(in) ==
    [ single |-> [ name |-> "single", shape |-> in.shape, dtype |-> in.dtype,
                   device |-> in.device ],
      pair |-> [ name |-> "pair",
                 shape |-> in.shape \o << in.shape[Len(in.shape)] >>,
                 dtype |-> in.dtype, device |-> in.device ] ]

\* The loop body with the attention statement assigning z.
Assigned_z(stmt) ==
    CASE stmt = "ipa" -> "z"
      [] stmt \in {"ipa_dropout", "layer_norm_ipa", "transition"} -> "s"
      [] stmt \in {"compose", "stop_rot_gradient"} -> "rigids"
      [] stmt = "frames_to_atom4_pos" -> "pred_xyz"
      [] stmt = "record" -> "outputs"

\* structure_module.py:127-149, the name each statement of the loop body
\* assigns (outputs.append changes the list outputs).
Assigned(stmt) ==
    CASE stmt \in {"ipa", "ipa_dropout", "layer_norm_ipa", "transition"} -> "s"
      [] stmt \in {"compose", "stop_rot_gradient"} -> "rigids"
      [] stmt = "frames_to_atom4_pos" -> "pred_xyz"
      [] stmt = "record" -> "outputs"

\* One assignment: the statement, its block (0 before the loop), the name
\* assigned, the callable that computed the value and, for a value computed
\* from an entry of the caller's dictionary, that entry.
Write(stmt, block, target, module, arg) ==
    [ stmt |-> stmt, block |-> block, target |-> target, module |-> module,
      arg |-> arg ]

\* structure_module.py:104-124, the assignments before the loop.
PrologueWrites(dict, mask) ==
    << Write("prologue", 0, "s", "evoformer_output_dict['single']",
             Some(dict.single)) >>
    \o (IF mask = None
        THEN << Write("prologue", 0, "mask", "s.new_ones", None) >>
        ELSE << >>)
    \o << Write("prologue", 0, "s", "self.layer_norm_s", None),
          Write("prologue", 0, "z", "self.layer_norm_z", Some(dict.pair)),
          Write("prologue", 0, "s", "self.linear_in", None),
          Write("prologue", 0, "rigids", "Rigid3Array.identity", None),
          Write("prologue", 0, "outputs", "list", None) >>

SmIdle ==
    /\ no_blocks = 0
    /\ lit_positions = None
    /\ sm_in = None
    /\ pc = "idle"
    /\ sm_i = 0
    /\ sm_s = None
    /\ sm_z = None
    /\ sm_mask = None
    /\ rigids = None
    /\ bb_updates = <<>>
    /\ pred_xyz = None
    /\ outputs = <<>>
    /\ sm_result = None
    /\ sm_log = <<>>
    /\ sm_reads = <<>>
    /\ sm_writes = <<>>
    /\ evoformer_output_dict = None
    /\ tpl_calls = <<>>

\* structure_module.py:17-97, a module with no_blocks blocks and no
\* lit_positions buffer yet, and the input of forward.
SmInit ==
    /\ no_blocks \in 1..MaxBlocks
    /\ lit_positions = None
    /\ sm_in \in UNION { [ shape : {shape}, dtype : Dtypes, device : Devices,
                           mask : {None} \cup { Some(m) : m \in Masks(shape) } ] :
                         shape \in LeadShapes }
    /\ pc = "start"
    /\ sm_i = 0
    /\ sm_s = None
    /\ sm_z = None
    /\ sm_mask = None
    /\ rigids = None
    /\ bb_updates = <<>>
    /\ pred_xyz = None
    /\ outputs = <<>>
    /\ sm_result = None
    /\ sm_log = <<>>
    /\ sm_reads = <<>>
    /\ sm_writes = <<>>
    /\ evoformer_output_dict = Some(InputDict(sm_in))
    /\ tpl_calls = <<>>

\* structure_module.py:104-125, up to the first test of the loop.
Prologue ==
    /\ pc = "start"
    /\ sm_mask' = IF sm_in.mask = None
                  THEN Some(new_ones(sm_in.shape))
                  ELSE sm_in.mask
    /\ sm_z' = Some("layer_norm_z")
    /\ sm_s' = Some(Features("linear_in", 0))
    /\ rigids' = Some(Rigid3Array_identity(sm_in.shape, sm_in.device))
    /\ outputs' = <<>>
    /\ sm_i' = 0
    /\ sm_writes' = PrologueWrites(Val(evoformer_output_dict), sm_in.mask)
    /\ pc' = IF 0 < no_blocks THEN "ipa" ELSE "finish"
    /\ UNCHANGED <<no_blocks, lit_positions, sm_in, evoformer_output_dict, bb_updates, pred_xyz,
                   sm_result, sm_log, sm_reads, tpl_calls>>
    /\ UNCHANGED <<attn_vars, num_vars, layer_vars, more_vars>>

\* structure_module.py:127, s = s + self.ipa(s, z, rigids, mask): the
\* attention reads the running transform and leaves it alone.
IpaStep ==
    /\ pc = "ipa"
    /\ sm_s' = Some(Features("ipa", sm_i + 1))
    /\ sm_log' = Append(sm_log, Event("ipa", sm_i + 1, Val(sm_s'), Val(rigids)))
    /\ sm_reads' = Append(sm_reads, Read("ipa", sm_i + 1, "self.ipa",
                                         sm_s, sm_z, rigids, sm_mask, None))
    /\ sm_writes' = Append(sm_writes, Write("ipa", sm_i + 1, Assigned("ipa"),
                                           "self.ipa", None))
    /\ pc' = AfterStatement("ipa")
    /\ UNCHANGED <<no_blocks, lit_positions, sm_in, evoformer_output_dict, sm_i, sm_z, sm_mask, rigids,
                   bb_updates, pred_xyz, outputs, sm_result, tpl_calls>>
    /\ UNCHANGED <<attn_vars, num_vars, layer_vars, more_vars>>

\* structure_module.py:128, s = self.ipa_dropout(s)
DropoutStep ==
    /\ pc = "dropout"
    /\ sm_s' = Some(Features("ipa_dropout", sm_i + 1))
    /\ sm_log' = Append(sm_log, Event("ipa_dropout", sm_i + 1, Val(sm_s'), Val(rigids)))
    /\ sm_reads' = Append(sm_reads, Read("ipa_dropout", sm_i + 1, "self.ipa_dropout",
                                         sm_s, None, None, None, None))
    /\ sm_writes' = Append(sm_writes, Write("ipa_dropout", sm_i + 1, Assigned("ipa_dropout"),
                                           "self.ipa_dropout", None))
    /\ pc' = AfterStatement("dropout")
    /\ UNCHANGED <<no_blocks, lit_positions, sm_in, evoformer_output_dict, sm_i, sm_z, sm_mask, rigids,
                   bb_updates, pred_xyz, outputs, sm_result, tpl_calls>>
    /\ UNCHANGED <<attn_vars, num_vars, layer_vars, more_vars>>

\* structure_module.py:129, s = self.layer_norm_ipa(s)
LayerNormStep ==
    /\ pc = "layer_norm"
    /\ sm_s' = Some(Features("layer_norm_ipa", sm_i + 1))
    /\ sm_log' = Append(sm_log, Event("layer_norm_ipa", sm_i + 1, Val(sm_s'), Val(rigids)))
    /\ sm_reads' = Append(sm_reads, Read("layer_norm_ipa", sm_i + 1, "self.layer_norm_ipa",
                                         sm_s, None, None, None, None))
    /\ sm_writes' = Append(sm_writes, Write("layer_norm_ipa", sm_i + 1, Assigned("layer_norm_ipa"),
                                           "self.layer_norm_ipa", None))
    /\ pc' = AfterStatement("layer_norm")
    /\ UNCHANGED <<no_blocks, lit_positions, sm_in, evoformer_output_dict, sm_i, sm_z, sm_mask, rigids,
                   bb_updates, pred_xyz, outputs, sm_result, tpl_calls>>
    /\ UNCHANGED <<attn_vars, num_vars, layer_vars, more_vars>>

\* structure_module.py:130, s = self.transition(s)
TransitionStep ==
    /\ pc = "transition"
    /\ sm_s' = Some(Features("transition", sm_i + 1))
    /\ sm_log' = Append(sm_log, Event("transition", sm_i + 1, Val(sm_s'), Val(rigids)))
    /\ sm_reads' = Append(sm_reads, Read("transition", sm_i + 1, "self.transition",
                                         sm_s, None, None, None, None))
    /\ sm_writes' = Append(sm_writes, Write("transition", sm_i + 1, Assigned("transition"),
                                           "self.transition", None))
    /\ pc' = AfterStatement("transition")
    /\ UNCHANGED <<no_blocks, lit_positions, sm_in, evoformer_output_dict, sm_i, sm_z, sm_mask, rigids,
                   bb_updates, pred_xyz, outputs, sm_result, tpl_calls>>
    /\ UNCHANGED <<attn_vars, num_vars, layer_vars, more_vars>>

\* structure_module.py:133, rigids = rigids @ self.bb_update(s)
ComposeStep ==
    /\ pc = "compose"
    /\ \E c \in 1..Len(Updates) :
          LET update == bb_update(c, sm_in.shape, sm_in.dtype, sm_in.device,
                                  sm_i + 1)
          IN  /\ rigids' = Some(NextRigids(Val(rigids), update))
              /\ bb_updates' = Append(bb_updates, update)
    /\ sm_log' = Append(sm_log, Event("compose", sm_i + 1, Val(sm_s), Val(rigids')))
    /\ sm_reads' = Append(sm_reads, Read("compose", sm_i + 1, "self.bb_update",
                                         sm_s, None, rigids, None, None))
    /\ sm_writes' = Append(sm_writes, Write("compose", sm_i + 1, Assigned("compose"),
                                           "self.bb_update", None))
    /\ pc' = AfterStatement("compose")
    /\ UNCHANGED <<no_blocks, lit_positions, sm_in, evoformer_output_dict, sm_i, sm_s, sm_z, sm_mask,
                   pred_xyz, outputs, sm_result, tpl_calls>>
    /\ UNCHANGED <<attn_vars, num_vars, layer_vars, more_vars>>

\* structure_module.py:136, pred_xyz = self.frames_to_atom4_pos(rigids)
AtomPosStep ==
    /\ pc = "atom_pos"
    /\ LET ret == frames_to_atom4_pos(lit_positions, Val(rigids))
       IN  /\ lit_positions' = ret.lit_positions
           /\ pred_xyz' = Some(ret.backbone_xyz)
    /\ sm_log' = Append(sm_log, Event("frames_to_atom4_pos", sm_i + 1, Val(sm_s),
                                      Val(rigids)))
    /\ sm_reads' = Append(sm_reads, Read("frames_to_atom4_pos", sm_i + 1,
                                         "self.frames_to_atom4_pos",
                                         None, None, rigids, None, None))
    /\ sm_writes' = Append(sm_writes, Write("frames_to_atom4_pos", sm_i + 1, Assigned("frames_to_atom4_pos"),
                                           "self.frames_to_atom4_pos", None))
    /\ pc' = AfterStatement("atom_pos")
    /\ UNCHANGED <<no_blocks, sm_in, evoformer_output_dict, sm_i, sm_s, sm_z, sm_mask, rigids,
                   bb_updates, outputs, sm_result, tpl_calls>>
    /\ UNCHANGED <<attn_vars, num_vars, layer_vars, more_vars>>

\* structure_module.py:138-145, preds built, converted and appended.
RecordStep ==
    /\ pc = "record"
    /\ LET preds == [ frames |-> To(Rigid3Array_to_tensor(Val(rigids)), sm_in.dtype),
                      positions |-> To(Val(pred_xyz), sm_in.dtype) ]
       IN  outputs' = Appended(outputs, preds)
    /\ sm_log' = Append(sm_log, Event("record", sm_i + 1, Val(sm_s), Val(rigids)))
    /\ sm_reads' = Append(sm_reads, Read("record", sm_i + 1, "outputs.append",
                                         sm_s, None, rigids, None, pred_xyz))
    /\ sm_writes' = Append(sm_writes, Write("record", sm_i + 1, Assigned("record"),
                                           "outputs.append", None))
    /\ pc' = AfterStatement("record")
    /\ UNCHANGED <<no_blocks, lit_positions, sm_in, evoformer_output_dict, sm_i, sm_s, sm_z, sm_mask,
                   rigids, bb_updates, pred_xyz, sm_result, tpl_calls>>
    /\ UNCHANGED <<attn_vars, num_vars, layer_vars, more_vars>>

\* structure_module.py:147-149 and the step of the loop (line 125).
LoopEndStep ==
    /\ pc = "loop_end"
    /\ IF NotLastBlock(sm_i, no_blocks)
       THEN /\ rigids' = Some(Rigid3Array_stop_rot_gradient(Val(rigids)))
            /\ sm_log' = Append(sm_log, Event("stop_rot_gradient", sm_i + 1,
                                              Val(sm_s), Val(rigids')))
            /\ sm_reads' = Append(sm_reads,
                                  Read("stop_rot_gradient", sm_i + 1,
                                       "rigids.stop_rot_gradient",
                                       None, None, rigids, None, None))
            /\ sm_writes' = Append(sm_writes,
                                   Write("stop_rot_gradient", sm_i + 1,
                                         Assigned("stop_rot_gradient"),
                                         "rigids.stop_rot_gradient", None))
       ELSE UNCHANGED <<rigids, sm_log, sm_reads, sm_writes>>
    /\ sm_i' = sm_i + 1
    /\ pc' = AfterIteration(sm_i, no_blocks)
    /\ UNCHANGED <<no_blocks, lit_positions, sm_in, evoformer_output_dict, sm_s, sm_z, sm_mask,
                   bb_updates, pred_xyz, outputs, sm_result, tpl_calls>>
    /\ UNCHANGED <<attn_vars, num_vars, layer_vars, more_vars>>

\* structure_module.py:151-156, z dropped, the outputs stacked and returned.
FinishStep ==
    /\ pc = "finish"
    /\ sm_z' = None
    /\ sm_result' = Some(
          [ frames |-> Stack([k \in 1..Len(outputs) |-> outputs[k].frames]),
            positions |-> Stack([k \in 1..Len(outputs) |-> outputs[k].positions]),
            single |-> Val(sm_s) ])
    /\ sm_writes' = sm_writes \o
          << Write("finish", no_blocks + 1, "outputs", "dict_multimap", None),
             Write("finish", no_blocks + 1, "outputs['single']", "s", None) >>
    /\ pc' = "done"
    /\ UNCHANGED <<no_blocks, lit_positions, sm_in, evoformer_output_dict, sm_i, sm_s, sm_mask, rigids,
                   bb_updates, pred_xyz, outputs, sm_log, sm_reads, tpl_calls>>
    /\ UNCHANGED <<attn_vars, num_vars, layer_vars, more_vars>>

(***************************************************************************)
(* SpecTemplate: calls of frames_to_atom4_pos on one module instance with  *)
(* frames of any precision and device.                                     *)
(***************************************************************************)
TplInit ==
    /\ no_blocks \in 1..MaxBlocks
    /\ lit_positions = None
    /\ sm_in = None
    /\ pc = "idle"
    /\ sm_i = 0
    /\ sm_s = None
    /\ sm_z = None
    /\ sm_mask = None
    /\ rigids = None
    /\ bb_updates = <<>>
    /\ pred_xyz = None
    /\ outputs = <<>>
    /\ sm_result = None
    /\ sm_log = <<>>
    /\ sm_reads = <<>>
    /\ sm_writes = <<>>
    /\ evoformer_output_dict = None
    /\ tpl_calls = <<>>

\* The frames of one token handed to frames_to_atom4_pos.
TplFrames(dtype, device) ==
    [Rigid3Array_identity(<<1>>, device) EXCEPT !.dtype = dtype]

\* structure_module.py:199-221, one call; tpl_calls remembers the frames'
\* precision and device, whether the buffer was created by this call and the
\* precision and device of the template the call read.
FramesToAtom4Pos ==
    /\ Len(tpl_calls) < MaxCalls
    /\ \E dtype \in Dtypes, device \in Devices :
          LET ret == frames_to_atom4_pos(lit_positions, TplFrames(dtype, device))
          IN  /\ lit_positions' = ret.lit_positions
              /\ tpl_calls' = Append(tpl_calls,
                    [ dtype |-> dtype, device |-> device,
                      materialized |-> lit_positions # ret.lit_positions,
                      template |-> [ dtype |-> Val(ret.lit_positions).dtype,
                                     device |-> Val(ret.lit_positions).device ],
                      backbone_xyz |-> ret.backbone_xyz ])
    /\ UNCHANGED <<no_blocks, sm_in, evoformer_output_dict, pc, sm_i, sm_s, sm_z, sm_mask, rigids,
                   bb_updates, pred_xyz, outputs, sm_result, sm_log, sm_reads,
                   sm_writes>>
    /\ UNCHANGED <<attn_vars, num_vars, layer_vars, more_vars>>

(***************************************************************************)
(* SpecLayers: the constructors of Linear, AdaLN, AttentionPairBias and    *)
(* Attention, and Attention._wrap_up on a freshly built layer.             *)
(*                                                                         *)
(* A weight is a sequence of out_dim rows of in_dim integers, a bias a     *)
(* sequence of out_dim integers.  What a random initializer draws is       *)
(* modelled by Drawn, a family of matrices with entries among -1, 0, 1     *)
(* that are never all zero.  The sigmoid is 1 / (1 + exp(-x)) with the     *)
(* 2^x of Exp for exp.                                                     *)
(***************************************************************************)
MaxDim == 2         \* largest channel width (in_dim, out_dim, dim, c_q ...)
MaxHeads == 2       \* largest no_heads

\* primitives.py:171-184, the names the constructor of Linear knows.
InitNames == {"default", "relu", "glorot", "gating", "normal", "final"}

\* Names given as init: the six initializers and one that is none.
InitArgs == InitNames \cup {"xavier"}

Seeds == {0, 1}

\* The values a random initializer writes.
Drawn(out_dim, in_dim, seed) ==
    Tensor([o \in 1..out_dim |->
        Tensor([i \in 1..in_dim |-> ((o + i + seed) % 3) - 1])])

\* weights.fill_(v) on a matrix, tensor.fill_(v) on a vector.
Filled(out_dim, in_dim, v) ==
    Tensor([o \in 1..out_dim |-> Tensor([i \in 1..in_dim |-> v])])

FilledVec(dim, v) == Tensor([o \in 1..dim |-> v])

\* A module that was built, and a constructor that raised.
Built(cls, fields) == [error |-> NoError, cls |-> cls, m |-> fields]
CtorError(cls, error) == [error |-> error, cls |-> cls, m |-> <<>>]

\* Every name taken for a known one.
ValidInit_lenient(init) == TRUE

\* primitives.py:171-186, the chain of comparisons ends in raise ValueError.
ValidInit(init) == init \in InitNames

\* primitives.py:74-111 and 171-184, the weight after the initializer named
\* init: zeros for "gating" and "final", drawn values for the others.
InitWeight(init, out_dim, in_dim, seed) ==
    IF init \in {"gating", "final"}
    THEN Filled(out_dim, in_dim, 0)
    ELSE Drawn(out_dim, in_dim, seed)

\* The bias left as the constructor filled it.
GatingBias_unset(init, bias0) == bias0

\* primitives.py:177-180, self.bias.fill_(1.0) for "gating" when there is a
\* bias.
GatingBias(init, bias0) ==
    IF init = "gating" /\ bias0 # None
    THEN Some(FilledVec(Len(Val(bias0)), 1))
    ELSE bias0

\* A custom initializer: init_fn(weight, bias) fills the weight with 2 and
\* the bias, if there is one, with 3.
CustomWeight(out_dim, in_dim) == Filled(out_dim, in_dim, 2)
CustomBias(bias0) ==
    IF bias0 = None THEN None ELSE Some(FilledVec(Len(Val(bias0)), 3))

\* primitives.py:129-188, Linear.__init__
Linear_init(in_dim, out_dim, bias, init, init_fn, precision, seed) ==
    LET bias0 == IF bias THEN Some(FilledVec(out_dim, 0)) ELSE None
    IN  IF init_fn # None
        THEN Built("Linear", [ weight |-> CustomWeight(out_dim, in_dim),
                               bias |-> CustomBias(bias0),
                               precision |-> precision ])
        ELSE IF ~ValidInit(init)
        THEN CtorError("Linear", "ValueError")
        ELSE Built("Linear", [ weight |-> InitWeight(init, out_dim, in_dim, seed),
                               bias |-> GatingBias(init, bias0),
                               precision |-> precision ])

\* primitives.py:211-215, LinearNoBias
LinearNoBias_init(in_dim, out_dim, init, seed) ==
    Linear_init(in_dim, out_dim, FALSE, init, None, None, seed)

\* primitives.py:190-208, F.linear(input, weight, bias) on one vector.
Linear_forward(layer, input) ==
    Tensor([o \in 1..Len(layer.m.weight) |->
        RAdd(RSum([i \in 1..Len(input) |->
                      RMul(RInt(layer.m.weight[o][i]), input[i])]),
             RInt(IF layer.m.bias = None THEN 0 ELSE Val(layer.m.bias)[o]))])

\* nn.Sigmoid on an integer-valued entry.
Sigmoid(x) == RDiv(RInt(1), RAdd(RInt(1), Exp(0 - x.n)))

\* The initializer of AdaLN's skip projection, a random one.
SkipLinearInit_default == "default"

\* primitives.py:274
SkipLinearInit == "final"

\* primitives.py:271
ToGammaInit == "gating"

\* primitives.py:258-274, AdaLN.__init__
AdaLN_init(normalized_shape, seed) ==
    LET dim == normalized_shape
    IN  Built("AdaLN",
          [ a_layer_norm |-> [elementwise_affine |-> FALSE, bias |-> FALSE],
            s_layer_norm |-> [elementwise_affine |-> TRUE, bias |-> FALSE],
            to_gamma |-> Linear_init(dim, dim, TRUE, ToGammaInit, None, None, seed),
            skip_linear |-> LinearNoBias_init(dim, dim, SkipLinearInit, seed) ])

\* primitives.py:270-273 and 279, self.to_gamma(s): Linear, then Sigmoid.
AdaLN_to_gamma(layer, s) ==
    LET x == Linear_forward(layer.m.to_gamma, s)
    IN  Tensor([c \in 1..Len(x) |-> Sigmoid(x[c])])

\* primitives.py:279, self.skip_linear(s)
AdaLN_skip_linear(layer, s) == Linear_forward(layer.m.skip_linear, s)

\* The initializer of the output projection, a random one.
LinearOInit_default == "default"

\* primitives.py:541
LinearOInit == "final"

\* primitives.py:493-550, Attention.__init__
Attention_init(c_q, c_k, c_v, c_hidden, no_heads, gating, seed) ==
    Built("Attention",
      [ c_q |-> c_q, c_k |-> c_k, c_v |-> c_v,
        c_hidden |-> c_hidden, no_heads |-> no_heads, gating |-> gating,
        linear_q |-> LinearNoBias_init(c_q, c_hidden * no_heads, "glorot", seed),
        linear_k |-> LinearNoBias_init(c_k, c_hidden * no_heads, "glorot", seed),
        linear_v |-> LinearNoBias_init(c_v, c_hidden * no_heads, "glorot", seed),
        linear_o |-> Linear_init(c_hidden * no_heads, c_q, TRUE, LinearOInit,
                                 None, None, seed),
        to_gamma |-> IF gating
                     THEN Some(Linear_init(c_q, c_hidden * no_heads, TRUE, "gating",
                                           None, None, seed))
                     ELSE None ])

\* The check of the head count left out.
DivisibleByHeads_unchecked(dim, no_heads) == TRUE

\* primitives.py:417, assert dim % no_heads == 0
DivisibleByHeads(dim, no_heads) == dim % no_heads = 0

\* primitives.py:384-441, AttentionPairBias.__init__
AttentionPairBias_init(dim, c_pair, no_heads, input_gating, seed) ==
    IF no_heads = 0
    THEN CtorError("AttentionPairBias", "ZeroDivisionError")
    ELSE IF ~DivisibleByHeads(dim, no_heads)
    THEN CtorError("AttentionPairBias", "AssertionError")
    ELSE Built("AttentionPairBias",
          [ dim |-> dim, c_pair |-> c_pair, num_heads |-> no_heads,
            input_gating |-> input_gating,
            input_proj |-> IF input_gating THEN AdaLN_init(dim, seed)
                           ELSE Built("LayerNorm", [c_in |-> dim]),
            output_proj_linear |->
                LET lin == Linear_init(dim, dim, TRUE, "gating", None, None, seed)
                IN  [lin EXCEPT !.m.bias = Some(FilledVec(dim, 0 - 2))],
            attention |-> Attention_init(dim, dim, dim, dim \div no_heads,
                                         no_heads, TRUE, seed),
            layer_norm_pair |-> Built("LayerNorm", [c_in |-> c_pair]),
            linear_pair |-> LinearNoBias_init(c_pair, no_heads, "default", seed) ])

\* flatten_final_dims(o, 2): [H, C_hidden] to [H * C_hidden], head by head.
FlattenHeads(x, no_heads, c_hidden) ==
    Tensor([n \in 1..(no_heads * c_hidden) |->
        x[((n - 1) \div c_hidden) + 1][((n - 1) % c_hidden) + 1]])

\* nn.Unflatten(-1, (H, C_hidden)): [H * C_hidden] to [H, C_hidden].
UnflattenHeads(x, no_heads, c_hidden) ==
    Tensor([h \in 1..no_heads |->
        Tensor([c \in 1..c_hidden |-> x[(h - 1) * c_hidden + c]])])

\* primitives.py:574-591, Attention._wrap_up(o, q_x) with o of [Q, H, C_hidden]
\* and q_x of [Q, C_q]: the gate, the gated output, its flattening and the
\* projection returned.
Attention_wrap_up(layer, o, q_x) ==
    LET H == layer.m.no_heads
        C == layer.m.c_hidden
        g == IF layer.m.to_gamma # None
             THEN Tensor([i \in 1..Len(q_x) |->
                      LET x == UnflattenHeads(
                                  Linear_forward(Val(layer.m.to_gamma),
                                      Tensor([c \in 1..Len(q_x[i]) |-> RInt(q_x[i][c])])),
                                  H, C)
                      IN  Tensor([h \in 1..H |->
                              Tensor([c \in 1..C |-> Sigmoid(x[h][c])])])])
             ELSE <<>>
        gated == Tensor([i \in 1..Len(o) |->
                     Tensor([h \in 1..H |->
                         Tensor([c \in 1..C |->
                             IF layer.m.to_gamma # None
                             THEN RMul(RInt(o[i][h][c]), g[i][h][c])
                             ELSE RInt(o[i][h][c])])])])
        flat == Tensor([i \in 1..Len(o) |-> FlattenHeads(gated[i], H, C)])
    IN  [ g |-> g, gated |-> gated, flat |-> flat,
          o |-> Tensor([i \in 1..Len(o) |-> Linear_forward(layer.m.linear_o, flat[i])]) ]

\* The number of query rows of the inputs of _wrap_up.
WrapRows == 2

\* An attention output o of [Q, H, C_hidden] as some backend returned it, and
\* a query input q_x of [Q, C_q].
BackendOutput(no_heads, c_hidden, seed) ==
    Tensor([i \in 1..WrapRows |->
        Tensor([h \in 1..no_heads |->
            Tensor([c \in 1..c_hidden |-> ((i + 2 * h + c + seed) % 4) + 1])])])

QueryInput(c_q, seed) ==
    Tensor([i \in 1..WrapRows |-> Tensor([c \in 1..c_q |-> ((i + c + seed) % 3) - 1])])

LayersIdle ==
    /\ ctor = None
    /\ built = None
    /\ wrap = None

\* Linear(in_dim, out_dim, bias, init, init_fn, precision)
ConstructLinear ==
    /\ ctor = None
    /\ \E in_dim \in 1..MaxDim, out_dim \in 1..MaxDim, bias \in BOOLEAN,
          init \in InitArgs, init_fn \in {None, Some("fill")},
          precision \in {None, Some("float32")}, seed \in Seeds :
          /\ ctor' = Some([ cls |-> "Linear", in_dim |-> in_dim, out_dim |-> out_dim,
                            bias |-> bias, init |-> init, init_fn |-> init_fn,
                            precision |-> precision, seed |-> seed ])
          /\ built' = Some(Linear_init(in_dim, out_dim, bias, init, init_fn,
                                       precision, seed))
    /\ UNCHANGED wrap
    /\ UNCHANGED <<attn_vars, num_vars, sm_vars, more_vars>>

\* AdaLN(normalized_shape)
ConstructAdaLN ==
    /\ ctor = None
    /\ \E normalized_shape \in 1..MaxDim, seed \in Seeds :
          /\ ctor' = Some([ cls |-> "AdaLN", normalized_shape |-> normalized_shape,
                            seed |-> seed ])
          /\ built' = Some(AdaLN_init(normalized_shape, seed))
    /\ UNCHANGED wrap
    /\ UNCHANGED <<attn_vars, num_vars, sm_vars, more_vars>>

\* AttentionPairBias(dim, c_pair, no_heads, input_gating=...)
ConstructAttentionPairBias ==
    /\ ctor = None
    /\ \E dim \in 1..MaxDim, c_pair \in 1..MaxDim, no_heads \in 0..MaxHeads,
          input_gating \in BOOLEAN, seed \in Seeds :
          /\ ctor' = Some([ cls |-> "AttentionPairBias", dim |-> dim,
                            c_pair |-> c_pair, no_heads |-> no_heads,
                            input_gating |-> input_gating, seed |-> seed ])
          /\ built' = Some(AttentionPairBias_init(dim, c_pair, no_heads,
                                                  input_gating, seed))
    /\ UNCHANGED wrap
    /\ UNCHANGED <<attn_vars, num_vars, sm_vars, more_vars>>

\* Attention(c_q, c_k, c_v, c_hidden, no_heads, gating)
ConstructAttention ==
    /\ ctor = None
    /\ \E c_q \in 1..MaxDim, c_kv \in 1..MaxDim, c_hidden \in 1..MaxDim,
          no_heads \in 1..MaxHeads, gating \in BOOLEAN, seed \in Seeds :
          /\ ctor' = Some([ cls |-> "Attention", c_q |-> c_q, c_k |-> c_kv,
                            c_v |-> c_kv, c_hidden |-> c_hidden,
                            no_heads |-> no_heads, gating |-> gating,
                            seed |-> seed ])
          /\ built' = Some(Attention_init(c_q, c_kv, c_kv, c_hidden, no_heads,
                                          gating, seed))
    /\ UNCHANGED wrap
    /\ UNCHANGED <<attn_vars, num_vars, sm_vars, more_vars>>

\* Attention._wrap_up(o, q_x) on the layer just built, with the output o of
\* whichever backend returned.
WrapUp ==
    /\ built # None
    /\ Val(built).error = NoError
    /\ Val(built).cls = "Attention"
    /\ wrap = None
    /\ \E o_seed \in Seeds, q_seed \in Seeds :
          LET o == BackendOutput(Val(built).m.no_heads, Val(built).m.c_hidden, o_seed)
              q_x == QueryInput(Val(built).m.c_q, q_seed)
          IN  wrap' = Some([ o |-> o, q_x |-> q_x,
                             ret |-> Attention_wrap_up(Val(built), o, q_x) ])
    /\ UNCHANGED <<ctor, built>>
    /\ UNCHANGED <<attn_vars, num_vars, sm_vars, more_vars>>

(***************************************************************************)
(* SpecPairBias: calls of AttentionPairBias.forward.  The token features   *)
(* are [bs, n_tokens, c_atom] with bs = 1; a mask is a row of n_tokens     *)
(* entries 0 or 1, the mask bias a row of n_tokens numbers that broadcasts *)
(* over heads and queries, and the pair bias one n_tokens x n_tokens       *)
(* matrix (one head).                                                      *)
(***************************************************************************)
\* The precisions of the inputs that primitives.py:756 tells apart.
AttnDtypes == {"float32", "bfloat16", "float16"}

DefaultInf == 100000000     \* primitives.py:391, inf: float = 1e8

\* The values of the argument mask for n tokens.
TokenMasks(n) ==
    {None} \cup { Some(Tensor(m)) : m \in [1..n -> {0, 1}] }

ApbArgs ==
    UNION { [ n_tokens : {n}, mask : TokenMasks(n), dtype : AttnDtypes,
              input_gating : BOOLEAN, seed : Seeds ] : n \in 1..MaxTokens }

\* primitives.py:459-462, mask_bias = (mask - 1) * self.inf, or None.
MaskBias(mask, inf) ==
    IF mask = None
    THEN None
    ELSE Some(Tensor([k \in 1..Len(Val(mask)) |-> (Val(mask)[k] - 1) * inf]))

\* primitives.py:465-468, the pair bias projected from the pair features.
PairBias(n, seed) ==
    Some(Tensor([i \in 1..n |-> Tensor([j \in 1..n |-> ((i + j + seed) % 3) - 1])]))

\* primitives.py:726-767 on a bias list whose entries may be None: the
\* inputs have two batch dimensions, so nothing is reshaped (line 751);
\* inputs that are neither bfloat16 nor float16 are cast, and so is every
\* entry of the list (lines 756-761).  kernel_biases is the list the kernel
\* DS4Sci_EvoformerAttention was handed.
_deepspeed_evo_attn(dtype, biases, trace) ==
    IF ~ds4s_is_installed
    THEN [ outcome |-> Raise("ValueError", "_deepspeed_evo_attn", trace),
           kernel_biases |-> None ]
    ELSE IF dtype \notin {"bfloat16", "float16"}
            /\ \E k \in 1..Len(biases) : biases[k] = None
    THEN [ outcome |-> Raise("AttributeError", "_deepspeed_evo_attn", trace),
           kernel_biases |-> None ]     \* None.to(dtype=torch.bfloat16)
    ELSE [ outcome |-> Return(trace \o <<"DS4Sci_EvoformerAttention">>),
           kernel_biases |-> Some(biases) ]

\* primitives.py:443-484, with the checks of Attention.forward (lines 640-688)
\* that the call self.attention(q_x=a, kv_x=a, biases=[mask_bias, pair_bias],
\* use_deepspeed_evo_attention=True) goes through.
AttentionPairBias_forward(a) ==
    LET mask_bias == MaskBias(a.mask, DefaultInf)
        pair_bias == PairBias(a.n_tokens, a.seed)
        biases == <<mask_bias, pair_bias>>
        trace == << IF a.input_gating THEN "AdaLN" ELSE "LayerNorm",
                    "linear_pair", "_prep_qkv" >>
        attn == IF Len(biases) > 2
                THEN [ outcome |-> Raise("ValueError", "deepspeed_bias_count", trace),
                       kernel_biases |-> None ]
                ELSE _deepspeed_evo_attn(a.dtype, biases, trace)
        o == _wrap_up_call(attn.outcome)
    IN  [ biases |-> biases,
          kernel_biases |-> attn.kernel_biases,
          outcome |-> IF o.kind = "returned"
                      THEN Return(o.trace \o <<"output_proj_linear">>)
                      ELSE o ]

ApbIdle ==
    /\ apb_call = None
    /\ apb_result = None

\* One whole call of AttentionPairBias.forward.
PairBiasForward ==
    /\ apb_call = None
    /\ \E a \in ApbArgs :
          /\ apb_call' = Some(a)
          /\ apb_result' = Some(AttentionPairBias_forward(a))
    /\ UNCHANGED <<attn_vars, num_vars, sm_vars, layer_vars, ema_vars>>

\* The caller takes the output or the exception; the next call may follow.
PairBiasDone ==
    /\ apb_call # None
    /\ apb_call' = None
    /\ apb_result' = None
    /\ UNCHANGED <<attn_vars, num_vars, sm_vars, layer_vars, ema_vars>>

(***************************************************************************)
(* SpecWrapper: the hooks of AlphaFoldWrapper that touch the weights of    *)
(* the model, the averages of self.ema and self.cached_weights.  A set of  *)
(* weights is one number.  The trainer runs the hooks of training in its   *)
(* fit loop and runs a validation epoch, validation_step for every batch   *)
(* and then on_validation_epoch_end, without a hook of training between.   *)
(***************************************************************************)
MaxWeight == 2      \* the weights are 0..MaxWeight
MaxValSteps == 3    \* most batches of a validation epoch

Weights == 0..MaxWeight

\* ExponentialMovingAverage.update: the averages move towards the weights
\* of the model (decay 1/2, rounded down).
ema_update(ema, model) == ema + ((model - ema) \div 2)

\* Every validation_step taking a snapshot.
NeedsSnapshot_always(cached) == TRUE

\* model_wrapper.py:92, if self.cached_weights is None
NeedsSnapshot(cached) == cached = None

EmaIdle ==
    /\ model_params = 0
    /\ ema_params = 0
    /\ ema_device = "cpu"
    /\ cached_weights = None
    /\ trainer_stage = "idle"
    /\ hook = "none"
    /\ val_forwards = << >>
    /\ before_val = None

\* model_wrapper.py:14-24, self.ema starts as a copy of the weights of the
\* model and self.cached_weights as None.
WrapperInit ==
    /\ model_params \in Weights
    /\ ema_params = model_params
    /\ ema_device = "cpu"
    /\ cached_weights = None
    /\ trainer_stage = "fit"
    /\ hook = "__init__"
    /\ val_forwards = << >>
    /\ before_val = None

\* model_wrapper.py:57-82, training_step moves self.ema to the device of
\* the batch and runs the model; it assigns no weights.
TrainingStep ==
    /\ trainer_stage = "fit"
    /\ \E device \in Devices :
          ema_device' = IF ema_device # device THEN device ELSE ema_device
    /\ hook' = "training_step"
    /\ UNCHANGED <<model_params, ema_params, cached_weights, trainer_stage,
                   val_forwards, before_val>>
    /\ UNCHANGED <<attn_vars, num_vars, sm_vars, layer_vars, apb_vars>>

\* The optimizer of the trainer steps the weights of the model.
OptimizerStep ==
    /\ trainer_stage = "fit"
    /\ model_params' \in Weights
    /\ hook' = "optimizer_step"
    /\ UNCHANGED <<ema_params, ema_device, cached_weights, trainer_stage, val_forwards,
                   before_val>>
    /\ UNCHANGED <<attn_vars, num_vars, sm_vars, layer_vars, apb_vars>>

\* model_wrapper.py:84-86, self.ema.update(self.model)
OnBeforeZeroGrad ==
    /\ trainer_stage = "fit"
    /\ ema_params' = ema_update(ema_params, model_params)
    /\ hook' = "on_before_zero_grad"
    /\ UNCHANGED <<model_params, ema_device, cached_weights, trainer_stage,
                   val_forwards, before_val>>
    /\ UNCHANGED <<attn_vars, num_vars, sm_vars, layer_vars, apb_vars>>

\* model_wrapper.py:88-107, validation_step: the first one of an epoch
\* clones the weights of the model into self.cached_weights and loads the
\* averages into the model; then the model runs.
ValidationStep ==
    /\ trainer_stage = "validate" => Len(val_forwards) < MaxValSteps
    /\ IF NeedsSnapshot(cached_weights)
       THEN /\ cached_weights' = Some(model_params)
            /\ model_params' = ema_params
       ELSE UNCHANGED <<cached_weights, model_params>>
    /\ val_forwards' = (IF trainer_stage = "validate" THEN val_forwards ELSE << >>)
                       \o << model_params' >>
    /\ before_val' = IF trainer_stage = "validate" THEN before_val ELSE Some(model_params)
    /\ trainer_stage' = "validate"
    /\ hook' = "validation_step"
    /\ UNCHANGED <<ema_params, ema_device>>
    /\ UNCHANGED <<attn_vars, num_vars, sm_vars, layer_vars, apb_vars>>

\* model_wrapper.py:109-112, on_validation_epoch_end, which the trainer
\* calls after the last validation_step of the epoch.
OnValidationEpochEnd ==
    /\ trainer_stage = "validate"
    /\ cached_weights # None
    /\ model_params' = Val(cached_weights)
    /\ cached_weights' = None
    /\ trainer_stage' = "fit"
    /\ hook' = "on_validation_epoch_end"
    /\ UNCHANGED <<ema_params, ema_device, val_forwards, before_val>>
    /\ UNCHANGED <<attn_vars, num_vars, sm_vars, layer_vars, apb_vars>>

\* model_wrapper.py:179-182, on_load_checkpoint: the averages of the
\* checkpoint replace those of self.ema.
OnLoadCheckpoint ==
    /\ trainer_stage = "fit"
    /\ ema_params' \in Weights
    /\ hook' = "on_load_checkpoint"
    /\ UNCHANGED <<model_params, ema_device, cached_weights, trainer_stage,
                   val_forwards, before_val>>
    /\ UNCHANGED <<attn_vars, num_vars, sm_vars, layer_vars, apb_vars>>

vars == <<attn_vars, num_vars, sm_vars, layer_vars, more_vars>>

Init == AttnInit /\ NumIdle /\ SmIdle /\ LayersIdle /\ ApbIdle /\ EmaIdle

Next == Forward \/ ForwardDone

Spec == Init /\ [][Next]_vars

InitNumeric ==
    /\ ds4s_is_installed = FALSE
    /\ fa_is_installed = FALSE
    /\ AttnIdle
    /\ NumInit
    /\ SmIdle
    /\ LayersIdle
    /\ ApbIdle
    /\ EmaIdle

NextNumeric == RunAttention \/ RunChunked \/ RunLma

SpecNumeric == InitNumeric /\ [][NextNumeric]_vars

InitStructure ==
    /\ ds4s_is_installed = FALSE
    /\ fa_is_installed = FALSE
    /\ AttnIdle
    /\ NumIdle
    /\ SmInit
    /\ LayersIdle
    /\ ApbIdle
    /\ EmaIdle

NextStructure ==
    \/ Prologue
    \/ IpaStep
    \/ DropoutStep
    \/ LayerNormStep
    \/ TransitionStep
    \/ ComposeStep
    \/ AtomPosStep
    \/ RecordStep
    \/ LoopEndStep
    \/ FinishStep

SpecStructure == InitStructure /\ [][NextStructure]_vars

InitTemplate ==
    /\ ds4s_is_installed = FALSE
    /\ fa_is_installed = FALSE
    /\ AttnIdle
    /\ NumIdle
    /\ TplInit
    /\ LayersIdle
    /\ ApbIdle
    /\ EmaIdle

NextTemplate == FramesToAtom4Pos

SpecTemplate == InitTemplate /\ [][NextTemplate]_vars

InitLayers ==
    /\ ds4s_is_installed = FALSE
    /\ fa_is_installed = FALSE
    /\ AttnIdle
    /\ NumIdle
    /\ SmIdle
    /\ LayersIdle
    /\ ApbIdle
    /\ EmaIdle

NextLayers ==
    \/ ConstructLinear
    \/ ConstructAdaLN
    \/ ConstructAttentionPairBias
    \/ ConstructAttention
    \/ WrapUp

SpecLayers == InitLayers /\ [][NextLayers]_vars

InitPairBias ==
    /\ ds4s_is_installed \in BOOLEAN
    /\ fa_is_installed = FALSE
    /\ AttnIdle
    /\ NumIdle
    /\ SmIdle
    /\ LayersIdle
    /\ ApbIdle
    /\ EmaIdle

NextPairBias == PairBiasForward \/ PairBiasDone

SpecPairBias == InitPairBias /\ [][NextPairBias]_vars

InitWrapper ==
    /\ ds4s_is_installed = FALSE
    /\ fa_is_installed = FALSE
    /\ AttnIdle
    /\ NumIdle
    /\ SmIdle
    /\ LayersIdle
    /\ ApbIdle
    /\ WrapperInit

NextWrapper ==
    \/ TrainingStep
    \/ OptimizerStep
    \/ OnBeforeZeroGrad
    \/ ValidationStep
    \/ OnValidationEpochEnd
    \/ OnLoadCheckpoint

SpecWrapper == InitWrapper /\ [][NextWrapper]_vars

Called == fwd_call # None

Args == Val(fwd_call)

NumFlags == SumOptions(attn_options(Args))

Ran(stage) == \E n \in 1..Len(fwd_result.trace) : fwd_result.trace[n] = stage

(***************************************************************************)
(* Properties of Attention.forward (checked under Spec).                   *)
(***************************************************************************)
BiasList == IF Args.biases = None THEN <<>> ELSE Val(Args.biases)

\* C1: a call of Attention.forward with two or more of the four backend
\* flags set raises ValueError and returns no output (nothing was computed),
\* for every combination of flags and every bias list.
C1_MultipleFlagsRaiseValueError ==
    (Called /\ NumFlags > 1) =>
        /\ fwd_result.kind = "raised"
        /\ fwd_result.error = "ValueError"
        /\ fwd_result.trace = <<>>

\* C1 witness: two flags, neither LMA nor flash, with one bias term: the call
\* is stopped by the check on the number of flags.
C1_Witness ==
    /\ Called
    /\ NumFlags = 2
    /\ Args.use_memory_efficient_kernel
    /\ Args.use_deepspeed_evo_attention
    /\ Len(BiasList) = 1
    /\ fwd_result.kind = "raised"
    /\ fwd_result.at = "attn_options"

\* C2 (as claimed): a call with no backend flag set fails with an error and
\* produces no output.
C2_ZeroFlagsRaise ==
    (Called /\ NumFlags = 0) => fwd_result.kind = "raised"

\* C2 (amended): a call with no backend flag set is never stopped by the
\* check on the number of flags: it runs the stock _attention path, which
\* returns the output when the bias list holds exactly one term and
\* otherwise fails on _attention's own one-bias assertion.
C2_ZeroFlagsUseReference ==
    (Called /\ NumFlags = 0) =>
        IF Len(BiasList) = 1
        THEN /\ fwd_result.kind = "returned"
             /\ fwd_result.trace = <<"_prep_qkv", "_attention", "_wrap_up">>
        ELSE /\ fwd_result.kind = "raised"
             /\ fwd_result.error = "AssertionError"
             /\ fwd_result.at = "_attention"

\* C2 witness: a call with no flag and one bias term that returned.
C2_Witness ==
    /\ Called
    /\ NumFlags = 0
    /\ Len(BiasList) = 1
    /\ fwd_result.kind = "returned"

\* An optimized backend the call asks for that cannot run: the memory
\* efficient kernel (not implemented, and switched off under fp16), the
\* DeepSpeed kernel or FlashAttention without their package.
BackendCannotRun(a) ==
    \/ a.use_memory_efficient_kernel
    \/ a.use_deepspeed_evo_attention /\ ~ds4s_is_installed
    \/ a.use_flash /\ ~fa_is_installed

\* The same, without the fp16 case of the memory efficient kernel.
BackendCannotRunNoFp16(a) ==
    \/ a.use_memory_efficient_kernel /\ ~a.fp16
    \/ a.use_deepspeed_evo_attention /\ ~ds4s_is_installed
    \/ a.use_flash /\ ~fa_is_installed

\* C3 (as claimed): a call that sets the flag of an optimized backend that
\* cannot run (package missing, kernel not implemented, fp16 enabled) raises
\* and never returns a result of the stock _attention path.
C3_NoSilentFallback ==
    (Called /\ BackendCannotRun(Args)) =>
        /\ fwd_result.kind = "raised"
        /\ ~Ran("_attention")

\* C3 (amended): a call that sets the flag of an optimized backend whose
\* package is missing, or of the unimplemented memory efficient kernel while
\* fp16 is off, raises and never runs the stock _attention path; under fp16
\* the use_memory_efficient_kernel flag is cleared, and a call that sets only
\* that flag runs the stock path (it returns its result when given exactly
\* one bias term).
C3_NoSilentFallbackExceptFp16 ==
    /\ (Called /\ BackendCannotRunNoFp16(Args)) =>
            /\ fwd_result.kind = "raised"
            /\ ~Ran("_attention")
    /\ (Called /\ Args.use_memory_efficient_kernel /\ Args.fp16 /\ NumFlags = 1) =>
            IF Len(BiasList) = 1
            THEN fwd_result.kind = "returned" /\ Ran("_attention")
            ELSE fwd_result.kind = "raised" /\ fwd_result.at = "_attention"

\* C3 witness: the DeepSpeed kernel is asked for alone, with one bias term,
\* without its package, and the call raised inside _deepspeed_evo_attn.
C3_Witness ==
    /\ Called
    /\ NumFlags = 1
    /\ Args.use_deepspeed_evo_attention
    /\ ~ds4s_is_installed
    /\ Len(BiasList) = 1
    /\ fwd_result.kind = "raised"
    /\ fwd_result.at = "_deepspeed_evo_attn"

\* C10: with use_lma set and lma_q_chunk_size or lma_kv_chunk_size None the
\* call raises ValueError before any projection or attention is computed;
\* with use_lma set and both sizes given the chunk-size check does not stop
\* the call.
C10_LmaNeedsBothChunkSizes ==
    Called /\ Args.use_lma =>
        IF Args.lma_q_chunk_size = None \/ Args.lma_kv_chunk_size = None
        THEN /\ fwd_result.kind = "raised"
             /\ fwd_result.error = "ValueError"
             /\ fwd_result.at = "lma_chunk_size"
             /\ fwd_result.trace = <<>>
        ELSE fwd_result.at # "lma_chunk_size"

\* C10 witness: use_lma alone with only the key/value chunk size given; the
\* call raised at the chunk-size check.
C10_Witness ==
    /\ Called
    /\ NumFlags = 1
    /\ Args.use_lma
    /\ Args.lma_q_chunk_size = None
    /\ Args.lma_kv_chunk_size # None
    /\ fwd_result.at = "lma_chunk_size"

(***************************************************************************)
(* Properties of the attention functions (checked under SpecNumeric).      *)
(***************************************************************************)
Applied(op) == num_out.op = op

\* softmax(q.k^T + bias).v written out for one query row:
\* sum_j exp(a_j) v_j / sum_j exp(a_j) with a_j = q_i k_j + bias_ij.
RowAttention(b, i) ==
    LET bias == num_in.biases[1]
        a == Tensor([j \in 1..Len(num_in.key[b]) |->
                num_in.query[b][i] * num_in.key[b][j] + BiasAt(bias, b, i, j)])
    IN  RDiv(RSum([j \in 1..Len(a) |-> RMul(Exp(a[j]), RInt(num_in.value[b][j]))]),
             RSum([j \in 1..Len(a) |-> Exp(a[j])]))

InRange(x, r) == x >= r[1] /\ x <= r[2]

\* C5: for every q_chunk_size >= 1 and kv_chunk_size >= 1 (dividing the
\* lengths, leaving a shorter last chunk, or exceeding them) _lma visits the
\* query chunks in the outer loop and the key/value chunks in the inner loop,
\* every (query row, key column) pair lies in exactly one visited chunk,
\* every query row of the output is written exactly once, and the output
\* equals the output of _lma with a single chunk.
C5_LmaChunkSizeInvariant ==
    Applied("_lma") =>
        LET no_q == Len(num_in.query[1])
            no_kv == Len(num_in.key[1])
            visits == num_out.res.visits
        IN  /\ num_out.res.o =
                   _lma(num_in.query, num_in.key, num_in.value, num_in.biases,
                        no_q, no_kv).o
            /\ \A i \in 1..no_q : num_out.res.writes[i] = 1
            /\ \A i \in 1..no_q, j \in 1..no_kv :
                   Cardinality({n \in 1..Len(visits) :
                       InRange(i, visits[n].q) /\ InRange(j, visits[n].kv)}) = 1
            /\ \A n \in 1..(Len(visits) - 1) :
                   \/ /\ visits[n + 1].q = visits[n].q
                      /\ visits[n + 1].kv[1] = visits[n].kv[2] + 1
                   \/ /\ visits[n + 1].q[1] = visits[n].q[2] + 1
                      /\ visits[n].kv[2] = no_kv
                      /\ visits[n + 1].kv[1] = 1

\* C5 witness: _lma ran with chunk sizes that leave a shorter last chunk in
\* both loops, so that four chunks were visited.
C5_Witness ==
    /\ Applied("_lma")
    /\ num_out.q_chunk_size = 2
    /\ num_out.kv_chunk_size = 2
    /\ Len(num_in.query[1]) = 3
    /\ Len(num_in.key[1]) = 3
    /\ Len(num_out.res.visits) = 4
    /\ num_out.res.visits[4] = [q |-> <<3, 3>>, kv |-> <<3, 3>>]

(***************************************************************************)
(* Properties of StructureModule._forward_multimer (checked under          *)
(* SpecStructure).                                                         *)
(***************************************************************************)
\* The places of the log where the statement op ran.
EventsOf(op) == { p \in 1..Len(sm_log) : sm_log[p].op = op }

\* The place of the log where the statement op ran in the given block.
LogAt(op, block) ==
    CHOOSE p \in 1..Len(sm_log) : sm_log[p].op = op /\ sm_log[p].block = block

LoopOver == pc \in {"finish", "done"}

\* C6: in a run of n = no_blocks blocks stop_rot_gradient is applied to the
\* running transform exactly n-1 times: once after each of the blocks
\* 1..n-1, right after that block's transform and positions were recorded and
\* before the attention of the next block reads the transform, never after
\* the last block; it changes neither the value of the transform nor the
\* gradient path of the translation, and the rotation loses its gradient path
\* nowhere else in the loop.
C6_StopRotGradientBetweenBlocks ==
    /\ \A p \in EventsOf("stop_rot_gradient") :
          /\ sm_log[p].block \in 1..(no_blocks - 1)
          /\ p > 1
          /\ sm_log[p - 1].op = "record"
          /\ sm_log[p - 1].block = sm_log[p].block
          /\ sm_log[p].rigids.val = sm_log[p - 1].rigids.val
          /\ sm_log[p].rigids.trans_src = sm_log[p - 1].rigids.trans_src
          /\ sm_log[p].rigids.rot_src = {}
          /\ \A r \in EventsOf("stop_rot_gradient") :
                sm_log[r].block = sm_log[p].block => r = p
    /\ \A p \in EventsOf("ipa") :
          sm_log[p].block > 1 =>
              /\ sm_log[p - 1].op = "stop_rot_gradient"
              /\ sm_log[p - 1].block = sm_log[p].block - 1
              /\ sm_log[p].rigids.rot_src = {}
    /\ \A p \in 2..Len(sm_log) :
          sm_log[p].op # "stop_rot_gradient" =>
              sm_log[p - 1].rigids.rot_src \subseteq sm_log[p].rigids.rot_src
    /\ LoopOver =>
          /\ Cardinality(EventsOf("stop_rot_gradient")) = no_blocks - 1
          /\ { sm_log[p].block : p \in EventsOf("stop_rot_gradient") }
                = 1..(no_blocks - 1)

\* C6 witness: a finished run of three blocks with two detaches, the second
\* one of a transform whose rotation had a gradient path to block 2.
C6_Witness ==
    /\ pc = "done"
    /\ no_blocks = 3
    /\ Cardinality(EventsOf("stop_rot_gradient")) = 2
    /\ sm_log[LogAt("record", 2)].rigids.rot_src = {2}
    /\ sm_log[LogAt("stop_rot_gradient", 2)].rigids.trans_src = {1, 2}

\* The rotation of u_1 o ... o u_k at the element e, in quarter turns.
RECURSIVE RotOf(_, _, _)
RotOf(us, e, k) ==
    IF k = 0 THEN 0 ELSE (RotOf(us, e, k - 1) + us[k].val[e].rot) % 4

\* The translation of u_1 o ... o u_k at the element e: every t_j turned by
\* the rotations on its left.
RECURSIVE TransOf(_, _, _)
TransOf(us, e, k) ==
    IF k = 0 THEN <<0, 0, 0>>
    ELSE VAdd(TransOf(us, e, k - 1),
              RotApply(RotOf(us, e, k - 1), us[k].val[e].trans))

Elements == 1..NumEl(sm_in.shape)

\* C7: the running transform is the identity for every token before the
\* first block and is updated exactly once per block, by composition with
\* that block's increment on the right: after block k it is
\* identity o u_1 o ... o u_k, for every k in 1..no_blocks.
C7_RigidsAreRightComposition ==
    /\ (rigids # None /\ sm_log = <<>>) =>
          /\ DOMAIN Val(rigids).val = Elements
          /\ \A e \in Elements : Val(rigids).val[e] = IdentityTransform
    /\ \A p \in EventsOf("ipa") :
          sm_log[p].block = 1 =>
              \A e \in Elements : sm_log[p].rigids.val[e] = IdentityTransform
    /\ \A p \in EventsOf("compose") :
          /\ sm_log[p].block \in 1..Len(bb_updates)
          /\ \A e \in Elements :
                sm_log[p].rigids.val[e] =
                    [ rot |-> RotOf(bb_updates, e, sm_log[p].block),
                      trans |-> TransOf(bb_updates, e, sm_log[p].block) ]
          /\ \A r \in EventsOf("compose") :
                sm_log[r].block = sm_log[p].block => r = p
    /\ \A p \in 2..Len(sm_log) :
          sm_log[p].op # "compose" =>
              sm_log[p].rigids.val = sm_log[p - 1].rigids.val
    /\ sm_log # <<>> => Val(rigids).val = sm_log[Len(sm_log)].rigids.val
    /\ LoopOver =>
          { sm_log[p].block : p \in EventsOf("compose") } = 1..no_blocks

\* C7 witness: a finished run of three blocks on two tokens whose first two
\* increments do not commute.
C7_Witness ==
    /\ pc = "done"
    /\ no_blocks = 3
    /\ sm_in.shape = <<2>>
    /\ NextRigids(bb_updates[1], bb_updates[2]).val
          # NextRigids(bb_updates[2], bb_updates[1]).val
    /\ Val(rigids).val[1] # Val(rigids).val[2]

\* C8: forward with no_blocks = n returns a dictionary whose "frames" and
\* "positions" hold exactly n per-block results along a new first axis, in
\* block order (entry k is the transform of block k after its composition,
\* and the positions computed from it), "positions" has the shape
\* [n, batch..., tokens, 4, 3], and "single" is the token features after the
\* last block.
C8_OutputsStackedInBlockOrder ==
    pc = "done" =>
        LET ret == Val(sm_result)
            atoms == SubSeq(restype_atom14_rigid_group_positions[AlaOrder], 1, 4)
        IN  /\ DOMAIN ret = {"frames", "positions", "single"}
            /\ Len(ret.frames.data) = no_blocks
            /\ Len(ret.positions.data) = no_blocks
            /\ ret.frames.shape[1] = no_blocks
            /\ ret.positions.shape = <<no_blocks>> \o sm_in.shape \o <<4, 3>>
            /\ \A k \in 1..no_blocks :
                  LET after == sm_log[LogAt("compose", k)].rigids
                  IN  /\ ret.frames.data[k] = Rigid3Array_to_tensor(after).data
                      /\ DOMAIN ret.positions.data[k] = Elements
                      /\ \A e \in Elements :
                            /\ DOMAIN ret.positions.data[k][e] = 1..4
                            /\ \A a \in 1..4 :
                                  ret.positions.data[k][e][a] =
                                      VAdd(RotApply(after.val[e].rot, atoms[a]),
                                           after.val[e].trans)
            /\ ret.single = Features("transition", no_blocks)

\* C8 witness: a finished run of three blocks on a batch of two with two
\* tokens, whose three recorded transforms differ.
C8_Witness ==
    /\ pc = "done"
    /\ no_blocks = 3
    /\ sm_in.shape = <<2, 2>>
    /\ Val(sm_result).positions.shape = <<3, 2, 2, 4, 3>>
    /\ Val(sm_result).frames.data[1] # Val(sm_result).frames.data[2]
    /\ Val(sm_result).frames.data[2] # Val(sm_result).frames.data[3]
    /\ Val(sm_result).positions.data[1] # Val(sm_result).positions.data[3]

(***************************************************************************)
(* Properties of frames_to_atom4_pos (checked under SpecTemplate).         *)
(***************************************************************************)
\* C9: the literature template is cached per (precision, device) pair: over
\* any sequence of frames_to_atom4_pos calls on one module instance the
\* template is materialized on the first call of each pair and reused on the
\* later calls of that pair, so the template a call uses has the precision
\* and the device of that call's frames.
C9_TemplateCachedPerPrecisionAndDevice ==
    \A p \in 1..Len(tpl_calls) :
        /\ tpl_calls[p].template =
              [dtype |-> tpl_calls[p].dtype, device |-> tpl_calls[p].device]
        /\ tpl_calls[p].materialized =
              (\A r \in 1..(p - 1) :
                  \/ tpl_calls[r].dtype # tpl_calls[p].dtype
                  \/ tpl_calls[r].device # tpl_calls[p].device)

(***************************************************************************)
(* More properties of Attention.forward (checked under Spec).              *)
(***************************************************************************)
\* The calls that reach the stock implementation: no backend flag, or only
\* use_memory_efficient_kernel while fp16 is enabled.
OnReferencePath ==
    /\ Called
    /\ \/ NumFlags = 0
       \/ NumFlags = 1 /\ Args.use_memory_efficient_kernel /\ Args.fp16

C13_FlashTakesNoBiases ==
    /\ (Called /\ Args.use_flash /\ Args.biases # None) =>
          /\ fwd_result.kind = "raised"
          /\ fwd_result.error = "ValueError"
          /\ fwd_result.trace = <<>>
    /\ (Called /\ (fwd_result.at = "_flash_attn"
                   \/ Ran("flash_attn_varlen_kvpacked_func"))) =>
          /\ Args.use_flash
          /\ Args.biases = None
          /\ fwd_result = _wrap_up_call(_flash_attn_call(Args.flash_mask,
                                                         <<"_prep_qkv">>))

\* C13 witness: use_flash alone with the empty bias list and a flash_mask, on
\* a machine with flash_attn installed: the call is stopped at the check of
\* the bias option.
C13_Witness ==
    /\ Called
    /\ fa_is_installed
    /\ Args.use_flash
    /\ NumFlags = 1
    /\ Args.biases = Some(<<>>)
    /\ Args.flash_mask # None
    /\ fwd_result.at = "flash_biases"

(***************************************************************************)
(* More properties of the attention functions (checked under SpecNumeric). *)
(***************************************************************************)
\* softmax(q.k^T + b1 + b2 ...).v for one query row, every bias term of the
\* input added to the logits.
RowAttentionAllBiases(b, i) ==
    LET a == Tensor([j \in 1..Len(num_in.key[b]) |->
                num_in.query[b][i] * num_in.key[b][j]
                + BiasSum(num_in.biases, b, i, j)])
    IN  RDiv(RSum([j \in 1..Len(a) |-> RMul(Exp(a[j]), RInt(num_in.value[b][j]))]),
             RSum([j \in 1..Len(a) |-> Exp(a[j])]))

\* C12: _attention_chunked_trainable with checkpoint=True supports at most
\* two bias terms: with more than two it raises ValueError, with one or with
\* two it completes, every chunk's logits having every bias term added.
C12_CheckpointedTakesUpToTwoBiases ==
    (Applied("_attention_chunked_trainable") /\ num_out.checkpoint) =>
        /\ Len(num_in.biases) > 2 => num_out.res.error = "ValueError"
        /\ Len(num_in.biases) \in {1, 2} =>
              /\ num_out.res.error = NoError
              /\ Len(num_out.res.o) = Len(num_in.query)
              /\ \A b \in 1..Len(num_in.query) :
                    \A i \in 1..Len(num_in.query[b]) :
                        num_out.res.o[b][i] = RowAttentionAllBiases(b, i)

(***************************************************************************)
(* Properties of the constructors (checked under SpecLayers).              *)
(***************************************************************************)
Constructed(cls) == ctor # None /\ Val(ctor).cls = cls

CtorArgs == Val(ctor)

Module == Val(built)

AllEqual(matrix, v) ==
    \A o \in 1..Len(matrix) : \A i \in 1..Len(matrix[o]) : matrix[o][i] = v

AllEqualVec(vec, v) == \A o \in 1..Len(vec) : vec[o] = v

\* C14 as stated: whatever the other constructor arguments (bias, init_fn,
\* precision) are, Linear built with an init name outside the six known
\* names fails with ValueError and yields no layer.
C14_InvalidInitAlwaysRaises ==
    (Constructed("Linear") /\ CtorArgs.init \notin InitNames) =>
        /\ Module.error = "ValueError"
        /\ Module.m = <<>>

\* C14, amended: with no custom init_fn, Linear built with an init name
\* outside the six known names fails with ValueError and yields no layer,
\* whatever bias and precision are, and no known name fails; with a custom
\* init_fn the name is not looked at and the layer is built as init_fn
\* leaves it.
C14_InvalidInitRaisesWithoutInitFn ==
    Constructed("Linear") =>
        /\ (CtorArgs.init_fn = None /\ CtorArgs.init \notin InitNames) =>
              /\ Module.error = "ValueError"
              /\ Module.m = <<>>
        /\ (CtorArgs.init_fn = None /\ CtorArgs.init \in InitNames) =>
              Module.error = NoError
        /\ CtorArgs.init_fn # None =>
              /\ Module.error = NoError
              /\ Module.m.weight = CustomWeight(CtorArgs.out_dim, CtorArgs.in_dim)

\* C14 witness: an unknown name, no init_fn, a bias and a precision: the
\* constructor raised.
C14_Witness ==
    /\ Constructed("Linear")
    /\ CtorArgs.init = "xavier"
    /\ CtorArgs.init_fn = None
    /\ CtorArgs.bias
    /\ CtorArgs.precision # None
    /\ Module.error = "ValueError"

\* C15: right after construction with no custom init_fn, a Linear built with
\* init "gating" has every weight 0 and, when it has a bias, every bias entry
\* 1; a Linear built with init "final" has every weight 0 and, when it has a
\* bias, every bias entry 0.
C15_GatingAndFinalInit ==
    (Constructed("Linear") /\ CtorArgs.init_fn = None
        /\ CtorArgs.init \in {"gating", "final"}) =>
        /\ Module.error = NoError
        /\ Len(Module.m.weight) = CtorArgs.out_dim
        /\ \A o \in 1..CtorArgs.out_dim : Len(Module.m.weight[o]) = CtorArgs.in_dim
        /\ AllEqual(Module.m.weight, 0)
        /\ (Module.m.bias # None) = CtorArgs.bias
        /\ CtorArgs.bias =>
              /\ Len(Val(Module.m.bias)) = CtorArgs.out_dim
              /\ AllEqualVec(Val(Module.m.bias),
                             IF CtorArgs.init = "gating" THEN 1 ELSE 0)

\* C15 witness: a 2x2 "gating" layer with a bias was built.
C15_Witness ==
    /\ Constructed("Linear")
    /\ CtorArgs.init = "gating"
    /\ CtorArgs.init_fn = None
    /\ CtorArgs.bias
    /\ CtorArgs.in_dim = 2
    /\ CtorArgs.out_dim = 2
    /\ Module.m.bias = Some(<<1, 1>>)

\* C16: building AttentionPairBias with a width dim that no_heads does not
\* divide fails in the constructor; in every layer that was built each head
\* has dim / no_heads channels and no_heads times that width is dim exactly.
C16_DimDivisibleByHeads ==
    Constructed("AttentionPairBias") =>
        /\ (CtorArgs.no_heads = 0 \/ CtorArgs.dim % CtorArgs.no_heads # 0) =>
              /\ Module.error # NoError
              /\ Module.m = <<>>
        /\ Module.error = NoError =>
              LET att == Module.m.attention.m
              IN  /\ att.no_heads = CtorArgs.no_heads
                  /\ att.c_hidden * CtorArgs.no_heads = CtorArgs.dim
                  /\ att.no_heads * att.c_hidden = att.c_q
                  /\ Len(att.linear_q.m.weight) = CtorArgs.dim
                  /\ Len(att.linear_o.m.weight[1]) = CtorArgs.dim

\* C16 witness: dim = 1 with two heads: the constructor stopped at its
\* assertion.
C16_Witness ==
    /\ Constructed("AttentionPairBias")
    /\ CtorArgs.dim = 1
    /\ CtorArgs.no_heads = 2
    /\ Module.error = "AssertionError"

\* The conditioning vectors of width dim tried on the projections of AdaLN.
CondInputs(dim) ==
    { Tensor([c \in 1..dim |-> RInt(f[c])]) : f \in [1..dim -> {0 - 1, 0, 2}] }

\* C18 as stated: right after construction of AdaLN the gate projection has
\* all-zero weight and all-zero bias, so the gate is sigmoid(0) for every
\* conditioning input, and the skip projection has all-zero weight and no
\* bias, so the skip term is 0 for every conditioning input.
C18_AdaLNProjectionsAllZero ==
    Constructed("AdaLN") =>
        /\ AllEqual(Module.m.to_gamma.m.weight, 0)
        /\ AllEqualVec(Val(Module.m.to_gamma.m.bias), 0)
        /\ AllEqual(Module.m.skip_linear.m.weight, 0)
        /\ Module.m.skip_linear.m.bias = None
        /\ \A s \in CondInputs(CtorArgs.normalized_shape) :
              /\ AllEqualVec(AdaLN_to_gamma(Module, s), Sigmoid(RInt(0)))
              /\ AllEqualVec(AdaLN_skip_linear(Module, s), RInt(0))

\* C18, amended: right after construction of AdaLN the gate projection has
\* all-zero weight and all-one bias, so the gate is sigmoid(1) for every
\* conditioning input, and the skip projection has all-zero weight and no
\* bias, so the skip term is 0 for every conditioning input.
C18_AdaLNGateBiasOne ==
    Constructed("AdaLN") =>
        /\ Module.error = NoError
        /\ AllEqual(Module.m.to_gamma.m.weight, 0)
        /\ Len(Val(Module.m.to_gamma.m.bias)) = CtorArgs.normalized_shape
        /\ AllEqualVec(Val(Module.m.to_gamma.m.bias), 1)
        /\ Len(Module.m.skip_linear.m.weight) = CtorArgs.normalized_shape
        /\ AllEqual(Module.m.skip_linear.m.weight, 0)
        /\ Module.m.skip_linear.m.bias = None
        /\ \A s \in CondInputs(CtorArgs.normalized_shape) :
              /\ Len(AdaLN_to_gamma(Module, s)) = CtorArgs.normalized_shape
              /\ AllEqualVec(AdaLN_to_gamma(Module, s), Sigmoid(RInt(1)))
              /\ Len(AdaLN_skip_linear(Module, s)) = CtorArgs.normalized_shape
              /\ AllEqualVec(AdaLN_skip_linear(Module, s), RInt(0))

\* C18 witness: an AdaLN of width 2 was built.
C18_Witness ==
    /\ Constructed("AdaLN")
    /\ CtorArgs.normalized_shape = 2
    /\ Module.m.to_gamma.m.bias = Some(<<1, 1>>)
    /\ Module.m.skip_linear.m.weight = <<<<0, 0>>, <<0, 0>>>>

\* C19: right after construction Attention._wrap_up, hence forward on every
\* backend path on which it returns, gives the all-zero update for every
\* attention output o and query input q_x: the gate multiplies the per-head
\* output, the result is flattened head by head and projected by linear_o,
\* whose weight and bias are all zero.
C19_ZeroUpdateAtInit ==
    (Constructed("Attention") /\ wrap # None) =>
        LET call == Val(wrap)
            H == CtorArgs.no_heads
            C == CtorArgs.c_hidden
        IN  /\ AllEqual(Module.m.linear_o.m.weight, 0)
            /\ AllEqualVec(Val(Module.m.linear_o.m.bias), 0)
            /\ \A i \in 1..Len(call.o) : \A h \in 1..H : \A c \in 1..C :
                  /\ call.ret.gated[i][h][c] =
                        IF CtorArgs.gating
                        THEN RMul(RInt(call.o[i][h][c]), Sigmoid(RInt(1)))
                        ELSE RInt(call.o[i][h][c])
                  /\ call.ret.flat[i][(h - 1) * C + c] = call.ret.gated[i][h][c]
            /\ Len(call.ret.o) = Len(call.q_x)
            /\ \A i \in 1..Len(call.ret.o) :
                  /\ Len(call.ret.o[i]) = CtorArgs.c_q
                  /\ AllEqualVec(call.ret.o[i], RInt(0))

\* C19 witness: _wrap_up ran on a gated layer of two heads of two channels
\* with an attention output that is not zero.
C19_Witness ==
    /\ Constructed("Attention")
    /\ wrap # None
    /\ CtorArgs.gating
    /\ CtorArgs.no_heads = 2
    /\ CtorArgs.c_hidden = 2
    /\ CtorArgs.c_q = 2
    /\ Val(wrap).ret.flat[1][4] # RInt(0)
    /\ Val(wrap).ret.o = <<<<RInt(0), RInt(0)>>, <<RInt(0), RInt(0)>>>>

(***************************************************************************)
(* More properties of StructureModule._forward_multimer (checked under     *)
(* SpecStructure).                                                         *)
(***************************************************************************)
\* The mask of shape [batch..., tokens] that marks every position valid.
AllValidMask ==
    [ shape |-> sm_in.shape,
      data |-> Tensor([e \in 1..NumEl(sm_in.shape) |-> 1]) ]

ReadsOf(op) == { p \in 1..Len(sm_reads) : sm_reads[p].op = op }

\* C17: forward called with mask omitted (None) behaves as if called with
\* the all-ones mask of shape [batch..., tokens]: the attention call of every
\* block receives a mask marking every position valid, the very mask it
\* receives when that all-ones mask is passed in; a mask passed in reaches
\* every block unchanged.
C17_OmittedMaskIsAllOnes ==
    /\ \A p \in ReadsOf("ipa") :
          sm_reads[p].mask =
              Some(IF sm_in.mask = None THEN AllValidMask ELSE Val(sm_in.mask))
    /\ AllValidMask \in Masks(sm_in.shape)
    /\ LoopOver =>
          { sm_reads[p].block : p \in ReadsOf("ipa") } = 1..no_blocks

\* C17 witness: a finished run of three blocks on a batch of two with two
\* tokens and no mask.
C17_Witness ==
    /\ pc = "done"
    /\ no_blocks = 3
    /\ sm_in.mask = None
    /\ sm_in.shape = <<2, 2>>
    /\ Cardinality(ReadsOf("ipa")) = 3
    /\ sm_reads[LogAt("ipa", 3)].mask = Some([shape |-> <<2, 2>>,
                                              data |-> <<1, 1, 1, 1>>])

\* The statements of a block in program order.
LoopOrder ==
    << "ipa", "ipa_dropout", "layer_norm_ipa", "transition", "compose",
       "frames_to_atom4_pos", "record" >>

\* The modules of self the statements call.
ModuleOf(op) ==
    CASE op = "ipa" -> "self.ipa"
      [] op = "ipa_dropout" -> "self.ipa_dropout"
      [] op = "layer_norm_ipa" -> "self.layer_norm_ipa"
      [] op = "transition" -> "self.transition"
      [] op = "compose" -> "self.bb_update"
      [] op = "frames_to_atom4_pos" -> "self.frames_to_atom4_pos"
      [] op = "record" -> "outputs.append"
      [] op = "stop_rot_gradient" -> "rigids.stop_rot_gradient"

\* C20: within each block the statements run in the order (1) s <- s +
\* IPA(s, z, rigids, mask) with the transform the previous block left (the
\* identity for block 1), (2) dropout, (3) layer norm, (4) transition, (5)
\* the increment predicted from the s of step 4 and composed onto the
\* running transform, (6) the atom positions computed from the composed
\* transform, (7) transform and positions recorded; every block calls the
\* same ipa, transition and bb_update modules.
C20_StepsOfABlock ==
    /\ Len(sm_reads) = Len(sm_log)
    /\ LET body == SelectSeq(sm_log, LAMBDA e : e.op # "stop_rot_gradient")
       IN  \A n \in 1..Len(body) :
              /\ body[n].op = LoopOrder[((n - 1) % Len(LoopOrder)) + 1]
              /\ body[n].block = ((n - 1) \div Len(LoopOrder)) + 1
    /\ \A p \in 1..Len(sm_reads) :
          LET r == sm_reads[p]
              k == r.block
              prev_s == IF p = 1 THEN Features("linear_in", 0) ELSE sm_log[p - 1].s
              prev_rigids == IF p = 1
                             THEN Rigid3Array_identity(sm_in.shape, sm_in.device)
                             ELSE sm_log[p - 1].rigids
          IN  /\ r.op = sm_log[p].op
              /\ k = sm_log[p].block
              /\ r.module = ModuleOf(r.op)
              /\ r.op = "ipa" =>
                    /\ r.s = Some(prev_s)
                    /\ prev_s = IF k = 1 THEN Features("linear_in", 0)
                                ELSE Features("transition", k - 1)
                    /\ r.z = Some("layer_norm_z")
                    /\ r.mask = sm_mask
                    /\ r.rigids = Some(prev_rigids)
                    /\ k = 1 => \A e \in Elements :
                                    prev_rigids.val[e] = IdentityTransform
                    /\ k > 1 => prev_rigids.val =
                                    sm_log[LogAt("compose", k - 1)].rigids.val
                    /\ sm_log[p].s = Features("ipa", k)
              /\ r.op = "ipa_dropout" =>
                    /\ r.s = Some(Features("ipa", k))
                    /\ sm_log[p].s = Features("ipa_dropout", k)
              /\ r.op = "layer_norm_ipa" =>
                    /\ r.s = Some(Features("ipa_dropout", k))
                    /\ sm_log[p].s = Features("layer_norm_ipa", k)
              /\ r.op = "transition" =>
                    /\ r.s = Some(Features("layer_norm_ipa", k))
                    /\ sm_log[p].s = Features("transition", k)
              /\ r.op = "compose" =>
                    /\ r.s = Some(Features("transition", k))
                    /\ r.rigids = Some(prev_rigids)
                    /\ sm_log[p].rigids =
                          Rigid3Array_matmul(prev_rigids, bb_updates[k])
              /\ r.op = "frames_to_atom4_pos" =>
                    r.rigids = Some(sm_log[LogAt("compose", k)].rigids)
              /\ r.op = "record" =>
                    /\ r.rigids = Some(sm_log[LogAt("compose", k)].rigids)
                    /\ r.pred_xyz =
                          Some(frames_to_atom4_pos(lit_positions,
                                   sm_log[LogAt("compose", k)].rigids).backbone_xyz)
                    /\ r.s = Some(Features("transition", k))

\* C20 witness: a finished run of two blocks: fourteen statements of the
\* two bodies and the detach between them.
C20_Witness ==
    /\ pc = "done"
    /\ no_blocks = 2
    /\ Len(sm_reads) = 15
    /\ sm_reads[9].op = "ipa"
    /\ sm_reads[9].s = Some(Features("transition", 1))
    /\ sm_reads[13].module = "self.bb_update"
    /\ sm_reads[5].module = "self.bb_update"

WritesTo(target) == { p \in 1..Len(sm_writes) : sm_writes[p].target = target }

\* C21: z is computed exactly once, by self.layer_norm_z from the "pair"
\* entry of the input, before the first block; the attention call of every
\* block receives that z; no statement of a block assigns z; and the
\* caller's dictionary with its entries "single" and "pair" is the same
\* after forward as before.
C21_PairIsComputedOnceAndInputKept ==
    /\ evoformer_output_dict = Some(InputDict(sm_in))
    /\ pc = "start" => sm_writes = << >> /\ sm_z = None
    /\ pc # "start" =>
          /\ Cardinality(WritesTo("z")) = 1
          /\ \A p \in WritesTo("z") :
                /\ sm_writes[p].block = 0
                /\ sm_writes[p].module = "self.layer_norm_z"
                /\ sm_writes[p].arg = Some(InputDict(sm_in).pair)
          /\ \A p \in 1..Len(sm_writes) :
                sm_writes[p].block >= 1 =>
                    sm_writes[p].target \in {"s", "rigids", "pred_xyz", "outputs",
                                             "outputs['single']"}
          /\ pc # "done" => sm_z = Some("layer_norm_z")
          /\ \A p \in ReadsOf("ipa") : sm_reads[p].z = Some("layer_norm_z")
          /\ \A p \in 1..Len(sm_reads) :
                sm_reads[p].op # "ipa" => sm_reads[p].z = None
    /\ LoopOver => Cardinality(ReadsOf("ipa")) = no_blocks

\* C21 witness: a finished run of three blocks, each of which handed z to
\* the attention, on an input with a mask.
C21_Witness ==
    /\ pc = "done"
    /\ no_blocks = 3
    /\ sm_in.mask # None
    /\ Cardinality(ReadsOf("ipa")) = 3
    /\ Cardinality(WritesTo("s")) = 3 + 4 * 3
    /\ Val(evoformer_output_dict).pair.shape = <<2, 2, 2>>

(***************************************************************************)
(* Properties of AttentionPairBias.forward (checked under SpecPairBias).   *)
(***************************************************************************)
ApbArgsNow == Val(apb_call)

ApbBiases == Val(apb_result).biases

\* The mask bias the description gives: 0 where mask = 1 and the negated
\* large constant where mask = 0.
ExpectedMaskBias(mask) ==
    Tensor([k \in 1..Len(mask) |-> IF mask[k] = 1 THEN 0 ELSE 0 - DefaultInf])

\* C22: AttentionPairBias.forward hands the attention only well-formed bias
\* terms: with a mask the list is [mask bias, pair bias], the mask bias 0
\* where mask = 1 and -inf where mask = 0; with the mask omitted the list
\* has no None entry and the call proceeds with the pair bias alone.
C22_OnlyWellFormedBiases ==
    apb_call # None =>
        /\ \A k \in 1..Len(ApbBiases) : ApbBiases[k] # None
        /\ ApbArgsNow.mask # None =>
              ApbBiases = << Some(ExpectedMaskBias(Val(ApbArgsNow.mask))),
                             PairBias(ApbArgsNow.n_tokens, ApbArgsNow.seed) >>
        /\ ApbArgsNow.mask = None =>
              /\ ApbBiases = << PairBias(ApbArgsNow.n_tokens, ApbArgsNow.seed) >>
              /\ ds4s_is_installed => Val(apb_result).outcome.kind = "returned"

(***************************************************************************)
(* Properties of AlphaFoldWrapper (checked under SpecWrapper).             *)
(***************************************************************************)
InValidation == trainer_stage = "validate"

\* What holds in every state: during a validation epoch the snapshot is
\* the weights held before its first validation_step, the model holds the
\* averages and every forward of the epoch ran on them; outside of one
\* there is no snapshot, and when on_validation_epoch_end has run the model
\* holds the weights it held before the epoch.
SwapState ==
    /\ InValidation =>
          /\ before_val # None
          /\ cached_weights = before_val
          /\ model_params = ema_params
          /\ Len(val_forwards) >= 1
          /\ \A k \in 1..Len(val_forwards) : val_forwards[k] = ema_params
    /\ ~InValidation => cached_weights = None
    /\ hook = "on_validation_epoch_end" =>
          /\ model_params = Val(before_val)
          /\ cached_weights = None

\* What holds of every step: a validation_step after the first leaves the
\* snapshot alone, the hooks of validation leave the averages alone, and
\* among the hooks of the training and validation loops only
\* on_before_zero_grad changes the averages, to ema.update of them.
SwapStep ==
    /\ (hook' = "validation_step" /\ InValidation) =>
          /\ cached_weights' = cached_weights
          /\ model_params' = model_params
    /\ (hook' = "validation_step" /\ ~InValidation) =>
          /\ cached_weights' = Some(model_params)
          /\ model_params' = ema_params
    /\ hook' \in {"validation_step", "on_validation_epoch_end"} =>
          ema_params' = ema_params
    /\ hook' \in {"training_step", "optimizer_step"} => ema_params' = ema_params
    /\ hook' = "on_before_zero_grad" =>
          ema_params' = ema_update(ema_params, model_params)
    /\ ema_params' # ema_params =>
          hook' \in {"on_before_zero_grad", "on_load_checkpoint"}

====
